---- MODULE Spec2Model ----
(***************************************************************************)
(* PsychroLib (src/src/c/psychrolib.c and the R binding                    *)
(* src/src/r/src/bisection.cpp): the unit-system configuration, the        *)
(* saturation correlation, the Newton-Raphson dew-point solver and the     *)
(* bisection wet-bulb solver, as a state machine of one caller.            *)
(*                                                                         *)
(* A C double is modelled as a binary floating-point number with a 30-bit  *)
(* mantissa: a record [s, m, e] of value s * m * 2^e, with s in {1,-1} and *)
(* m = 0 (zero) or 2^29 <= m < 2^30.  Infinity is an m # 0 with e = EInf,  *)
(* NaN is m = 0 with e = EInf.  Results are truncated, not rounded, so an  *)
(* operation is exact to about 2 units in the last place (4e-9 relative).  *)
(***************************************************************************)
EXTENDS Integers, Sequences, FiniteSets, TLC

Two15 == 2^15
Two29 == 2^29
Two30 == 2^30
EInf  == 2^20

Zero == [s |-> 1, m |-> 0, e |-> 0]
NaN  == [s |-> 1, m |-> 0, e |-> EInf]
Inf(sg) == [s |-> sg, m |-> Two29, e |-> EInf]

IsNaN(a)  == a.m = 0 /\ a.e = EInf
IsInf(a)  == a.m # 0 /\ a.e = EInf
IsZero(a) == a.m = 0 /\ a.e # EInf

\* The normalising left shift of the float of sign sg and value mm * 2^ee: by
\* k, k/2, ..., 1 places when they are free.
RECURSIVE ShiftUp(_, _, _, _)
ShiftUp(sg, mm, ee, k) ==
  IF k = 0 THEN [s |-> sg, m |-> mm, e |-> ee]
  ELSE IF mm < 2^(30 - k) THEN ShiftUp(sg, mm * 2^k, ee - k, k \div 2)
  ELSE ShiftUp(sg, mm, ee, k \div 2)

\* The float of sign sg and value mm * 2^ee, for 0 <= mm < 2^31.
Normalize(sg, mm, ee) ==
  IF mm = 0 THEN Zero
  ELSE IF mm >= Two30 THEN [s |-> sg, m |-> mm \div 2, e |-> ee + 1]
  ELSE ShiftUp(sg, mm, ee, 16)

\* int -> double conversion, for |i| < 2^31.
FromInt(i) == Normalize(IF i < 0 THEN -1 ELSE 1, IF i < 0 THEN -i ELSE i, 0)

Neg(a) == IF a.m = 0 THEN a ELSE [a EXCEPT !.s = -a.s]

\* |a| < |b|, for a and b not NaN.
MagLt(a, b) ==
  IF b.m = 0 THEN FALSE
  ELSE IF a.m = 0 THEN TRUE
  ELSE a.e < b.e \/ (a.e = b.e /\ a.m < b.m)

\* The C comparisons; every comparison with a NaN is false.
Lt(a, b) ==
  /\ ~IsNaN(a) /\ ~IsNaN(b)
  /\ IF a.m = 0 THEN b.m # 0 /\ b.s = 1
     ELSE IF b.m = 0 THEN a.s = -1
     ELSE IF a.s # b.s THEN a.s = -1
     ELSE IF a.s = 1 THEN MagLt(a, b) ELSE MagLt(b, a)
Gt(a, b) == Lt(b, a)
Le(a, b) == ~IsNaN(a) /\ ~IsNaN(b) /\ ~Lt(b, a)
Ge(a, b) == Le(b, a)

\* a + b for finite a and b, |a| >= |b| > 0: the smaller mantissa is shifted
\* down to the exponent of the larger and added or subtracted.
AddMag(a, b) ==
  Normalize(a.s,
            IF a.e - b.e > 30 THEN a.m
            ELSE IF a.s = b.s THEN a.m + b.m \div 2^(a.e - b.e)
            ELSE a.m - b.m \div 2^(a.e - b.e),
            a.e)

Add(a, b) ==
  IF IsNaN(a) \/ IsNaN(b) THEN NaN
  ELSE IF IsInf(a) THEN (IF IsInf(b) /\ a.s # b.s THEN NaN ELSE a)
  ELSE IF IsInf(b) THEN b
  ELSE IF a.m = 0 THEN b
  ELSE IF b.m = 0 THEN a
  ELSE AddMag(IF MagLt(a, b) THEN b ELSE a, IF MagLt(a, b) THEN a ELSE b)

Sub(a, b) == Add(a, Neg(b))

\* The upper 30 bits of the 60-bit product of two mantissas, by 15-bit halves.
MulMant(x, y) ==
  LET xh == x \div Two15
      xl == x % Two15
      yh == y \div Two15
      yl == y % Two15
  IN  xh * yh + (xh * yl + xl * yh + (xl * yl) \div Two15) \div Two15

Mul(a, b) ==
  IF IsNaN(a) \/ IsNaN(b) THEN NaN
  ELSE IF IsInf(a) \/ IsInf(b)
    THEN (IF a.m = 0 \/ b.m = 0 THEN NaN ELSE Inf(a.s * b.s))
  ELSE IF a.m = 0 \/ b.m = 0 THEN Zero
  ELSE Normalize(a.s * b.s, MulMant(a.m, b.m), a.e + b.e + 30)

\* Long division: <<q, r'>> with r * 2^k = q * d + r', for 0 <= r < d < 2^30 and
\* k >= 1; the leading half of the bits, then the rest from its remainder.
RECURSIVE DivBits(_, _, _)
DivBits(r, d, k) ==
  IF k = 1 THEN (IF 2 * r >= d THEN <<1, 2 * r - d>> ELSE <<0, 2 * r>>)
  ELSE LET lo == k \div 2
           a  == DivBits(r, d, k - lo)
       IN  IF a[2] = 0 THEN <<a[1] * 2^lo, 0>>
           ELSE LET b == DivBits(a[2], d, lo) IN <<a[1] * 2^lo + b[1], b[2]>>

\* floor(x * 2^30 / y) for mantissas x and y.
DivMant(x, y) ==
  IF x >= y THEN Two30 + DivBits(x - y, y, 30)[1] ELSE DivBits(x, y, 30)[1]

Div(a, b) ==
  IF IsNaN(a) \/ IsNaN(b) THEN NaN
  ELSE IF IsInf(a) THEN (IF IsInf(b) THEN NaN ELSE Inf(a.s * b.s))
  ELSE IF IsInf(b) THEN Zero
  ELSE IF b.m = 0 THEN (IF a.m = 0 THEN NaN ELSE Inf(a.s))
  ELSE IF a.m = 0 THEN Zero
  ELSE Normalize(a.s * b.s, DivMant(a.m, b.m), a.e - b.e - 30)

Fabs(a) == [a EXCEPT !.s = 1]

\* The min and max macros of psychrolib.c.
Min(a, b) == IF Lt(a, b) THEN a ELSE b
Max(a, b) == IF Gt(a, b) THEN a ELSE b

\* std::min and std::max of the R binding: the first argument unless the
\* comparison holds.
StdMin(a, b) == IF Lt(b, a) THEN b ELSE a
StdMax(a, b) == IF Lt(a, b) THEN b ELSE a

\* 10^k as a double, k >= 0.
RECURSIVE Pow10(_)
Pow10(k) == IF k = 0 THEN FromInt(1) ELSE Mul(FromInt(10^(IF k <= 9 THEN k ELSE 9)), Pow10(IF k <= 9 THEN 0 ELSE k - 9))

\* The decimal literal mant * 10^e10 of the source, e.g. 5.6745359E+03 is
\* D(56745359, -4).
Scale(a, p, up) == IF up THEN Mul(a, p) ELSE Div(a, p)
D(mant, e10) == Scale(FromInt(mant), Pow10(IF e10 >= 0 THEN e10 ELSE -e10), e10 >= 0)

One == FromInt(1)
Two == FromInt(2)
LN2 == [s |-> 1, m |-> 744261118, e |-> -30]
HalfSqrt2 == [s |-> 1, m |-> 759250125, e |-> -30]

\* The integer part of a, for |a| < 2^30.
Trunc(a) ==
  IF a.m = 0 \/ a.e < -30 THEN 0
  ELSE IF a.e >= 0 THEN a.s * a.m * 2^a.e
  ELSE a.s * (a.m \div 2^(-a.e))

\* 1 + r/i * (1 + r/(i+1) * (...)): the Taylor series of exp(r), summed from its
\* last term; acc is the sum from term i + 1.
RECURSIVE ExpSeries(_, _, _)
ExpSeries(r, i, acc) ==
  IF IsNaN(acc) \/ i = 0 THEN acc
  ELSE ExpSeries(r, i - 1, Add(One, Mul(Div(r, FromInt(i)), acc)))

\* 2^k * exp(x - k*ln2).
ExpScaled(x, k) == [ExpSeries(Sub(x, Mul(FromInt(k), LN2)), 13, One) EXCEPT !.e = @ + k]

\* exp of <math.h>: x = k*ln2 + r, exp(x) = 2^k * exp(r).
Exp(x) ==
  IF IsNaN(x) THEN NaN
  ELSE IF IsInf(x) THEN (IF x.s = 1 THEN x ELSE Zero)
  ELSE ExpScaled(x, Trunc(Div(x, LN2)))

\* 1/(2i+1) + z2 * (1/(2i+3) + z2 * (...)): the series of atanh(z)/z, summed from
\* its last term; acc is the sum from term i + 1.
RECURSIVE LogSeries(_, _, _)
LogSeries(z2, i, acc) ==
  IF IsNaN(acc) \/ i < 0 THEN acc
  ELSE LogSeries(z2, i - 1, Add(Div(One, FromInt(2 * i + 1)), Mul(z2, acc)))

\* k*ln2 + 2*atanh(z) for z = (f-1)/(f+1).
LogSum(k, z) == Add(Mul(FromInt(k), LN2), Mul(Mul(Two, z), LogSeries(Mul(z, z), 8, Zero)))

\* 2*atanh((f-1)/(f+1)) for the fraction f.
LogFraction(k, f) == LogSum(k, Div(Sub(f, One), Add(f, One)))

\* x = f * 2^k for the fraction f of exponent -sh.
LogParts(x, sh) == LogFraction(x.e + sh, [s |-> 1, m |-> x.m, e |-> -sh])

\* log of <math.h>: x = f * 2^k with sqrt(1/2) <= f < sqrt(2),
\* log(x) = k*ln2 + 2*atanh((f-1)/(f+1)).
Log(x) ==
  IF IsNaN(x) \/ (x.m # 0 /\ x.s = -1) THEN NaN
  ELSE IF x.m = 0 THEN Inf(-1)
  ELSE IF IsInf(x) THEN x
  ELSE LogParts(x, IF Ge([s |-> 1, m |-> x.m, e |-> -30], HalfSqrt2) THEN 30 ELSE 29)

\* pow of <math.h> for the exponents 2, 3 and 4 the source uses.
RECURSIVE Pow(_, _)
Pow(a, n) == IF n = 1 THEN a ELSE Mul(a, Pow(a, n - 1))

\* pow of <math.h> for a >= 0 and an exponent x > 0 that is not an integer.
PowReal(a, x) == Exp(Mul(x, Log(a)))

\* a[1] + a[2] + ... + a[n], added left to right as a C expression is.
RECURSIVE SumTo(_, _, _)
SumTo(a, i, acc) == IF IsNaN(acc) \/ i > Len(a) THEN acc ELSE SumTo(a, i + 1, Add(acc, a[i]))
Sum(a) == SumTo(a, 2, a[1])

(***************************************************************************)
(* Global constants of psychrolib.c.                                       *)
(***************************************************************************)
ZERO_FAHRENHEIT_AS_RANKINE == D(45967, -2)
ZERO_CELSIUS_AS_KELVIN     == D(27315, -2)
INVALID                    == FromInt(-99999)
MAX_ITER_COUNT             == 100
MIN_HUM_RATIO              == D(1, -7)
FREEZING_POINT_WATER_IP    == D(320, -1)
FREEZING_POINT_WATER_SI    == Zero
R_DA_IP                    == D(53350, -3)
R_DA_SI                    == D(287042, -3)
TRIPLE_POINT_WATER_IP      == D(32018, -3)
TRIPLE_POINT_WATER_SI      == D(1, -2)

UnitSystem == {"UNDEFINED", "IP", "SI"}

(***************************************************************************)
(* The state: the two globals of the library, and the caller's position.   *)
(*   pc      "idle" between calls, "newton" inside the do-while loop of    *)
(*           GetTDewPointFromVapPres, "bisect" inside the while loop of    *)
(*           GetTWetBulbFromHumRatio, "exited" after exit(1)               *)
(*   fn      the library function the caller called last                   *)
(*   arg     its arguments                                                 *)
(*   dp      the locals of GetTDewPointFromVapPres                         *)
(*   wb      the locals of GetTWetBulbFromHumRatio                         *)
(*   ret     what the last call returned (a double or a unit system)       *)
(*   msg     the message printed before exit(1)                            *)
(*   setter  a second thread that calls SetUnitSystem while the caller is  *)
(*           in a calculation: pc is "none" when there is no such thread,  *)
(*           "ready" before and after its call, "wrote_units" after the    *)
(*           first assignment of SetUnitSystem, "read_units" after its     *)
(*           condition (ip is what the condition gave); overlap records    *)
(*           that a step of that call fell within the caller's current     *)
(*           call, raced that the caller called SetUnitSystem within it,   *)
(*           calls counts its calls                                        *)
(*   seen    a history variable: one earlier call of the caller and the    *)
(*           value it returned, or [none |-> TRUE]; [off |-> TRUE] when no *)
(*           history is kept                                               *)
(***************************************************************************)
VARIABLES PSYCHROLIB_UNITS, PSYCHROLIB_TOLERANCE, pc, fn, arg, dp, wb, ret, msg, setter, seen

vars == <<PSYCHROLIB_UNITS, PSYCHROLIB_TOLERANCE, pc, fn, arg, dp, wb, ret, msg, setter, seen>>

\* A call that ended in exit(1) has no value: it yields the message printed.
Fail(m) == [fail |-> m]
IsFail(v) == DOMAIN v = {"fail"}

UnitsMsg == "The system of units has not been defined"

\* No unit system taken for undefined, and only IP taken for defined.
UnitsNeverChecked == TRUE
UnitsOnlyIP == PSYCHROLIB_UNITS = "IP"

\* isIP() returns: the unit system is IP or SI (otherwise it exits).
UnitsDefined == PSYCHROLIB_UNITS \in {"IP", "SI"}
isIP == PSYCHROLIB_UNITS = "IP"

GetTRankineFromTFahrenheit(T_F) == Add(T_F, ZERO_FAHRENHEIT_AS_RANKINE)
GetTKelvinFromTCelsius(T_C) == Add(T_C, ZERO_CELSIUS_AS_KELVIN)

\* The regime of the saturation correlation, GetSatVapPres lines 759 and 772
\* (C_GetSatVapPres lines 42 and 51): over ice at or below the triple point.
IceRegime(TDryBulb, inIP) ==
  IF inIP THEN Le(TDryBulb, TRIPLE_POINT_WATER_IP) ELSE Le(TDryBulb, TRIPLE_POINT_WATER_SI)

\* The split of the ASHRAE handbook: at the freezing point, not the triple point.
IceRegimeAtFreezing(TDryBulb, inIP) ==
  IF inIP THEN Le(TDryBulb, FREEZING_POINT_WATER_IP) ELSE Le(TDryBulb, FREEZING_POINT_WATER_SI)

\* The regime of the derivative, dLnPws_ lines 332 and 343 (C_dLnPws lines 73 and 82).
dIceRegime(TDryBulb, inIP) ==
  IF inIP THEN Le(TDryBulb, TRIPLE_POINT_WATER_IP) ELSE Le(TDryBulb, TRIPLE_POINT_WATER_SI)

\* The coefficients of LnPws in the order of its terms, psychrolib.c lines
\* 759-776: c/T, c, c*T, c*T*T, c*pow(T,3), [c*pow(T,4) over ice,] c*log(T).
\* A term the source subtracts has its coefficient negated.
LnPwsIceIP ==
  << D(-10214165, -3), D(-48932428, -7), D(-53765794, -10), D(19202377, -14),
     D(35575832, -17), D(-90344688, -21), D(41635019, -7) >>
LnPwsWaterIP ==
  << D(-10440397, -3), D(-11294650, -6), D(-27022355, -9), D(12890360, -12),
     D(-24780681, -16), D(65459673, -7) >>
LnPwsIceSI ==
  << D(-56745359, -4), D(63925247, -7), D(-9677843, -9), D(62215701, -14),
     D(20747825, -16), D(-9484024, -19), D(41635019, -7) >>
LnPwsWaterSI ==
  << D(-58002206, -4), D(13914993, -7), D(-48640239, -9), D(41764768, -12),
     D(-14452093, -15), D(65459673, -7) >>

\* The sum of the terms for T in degree Rankine or Kelvin, added left to right.
LnPwsSum(T, c, ice) ==
  IF ice
  THEN Sum(<< Div(c[1], T), c[2], Mul(c[3], T), Mul(Mul(c[4], T), T),
              Mul(c[5], Pow(T, 3)), Mul(c[6], Pow(T, 4)), Mul(c[7], Log(T)) >>)
  ELSE Sum(<< Div(c[1], T), c[2], Mul(c[3], T), Mul(Mul(c[4], T), T),
              Mul(c[5], Pow(T, 3)), Mul(c[6], Log(T)) >>)

\* LnPws of GetSatVapPres (and of C_GetSatVapPres).
LnPws(TDryBulb, inIP) ==
  LnPwsSum(IF inIP THEN GetTRankineFromTFahrenheit(TDryBulb)
                   ELSE GetTKelvinFromTCelsius(TDryBulb),
           IF inIP THEN (IF IceRegime(TDryBulb, inIP) THEN LnPwsIceIP ELSE LnPwsWaterIP)
                   ELSE (IF IceRegime(TDryBulb, inIP) THEN LnPwsIceSI ELSE LnPwsWaterSI),
           IceRegime(TDryBulb, inIP))

\* C_GetSatVapPres of the R binding: the correlation without the range check.
C_GetSatVapPres(TDryBulb, inIP) == Exp(LnPws(TDryBulb, inIP))

\* The coefficients of dLnPws_ in the order of its terms, psychrolib.c lines
\* 331-348: c/pow(T,2), c, 2*c*T, 3*c*pow(T,2), [4*c*pow(T,3) over ice,] c/T.
dLnPwsIceIP ==
  << D(10214165, -3), D(-53765794, -10), D(19202377, -14), D(35575832, -17),
     D(-90344688, -21), D(41635019, -7) >>
dLnPwsWaterIP ==
  << D(10440397, -3), D(-27022355, -9), D(12890360, -12), D(-24780681, -16),
     D(65459673, -7) >>
dLnPwsIceSI ==
  << D(56745359, -4), D(-9677843, -9), D(62215701, -14), D(20747825, -16),
     D(-9484024, -19), D(41635019, -7) >>
dLnPwsWaterSI ==
  << D(58002206, -4), D(-48640239, -9), D(41764768, -12), D(-14452093, -15),
     D(65459673, -7) >>

dLnPwsSum(T, c, ice) ==
  IF ice
  THEN Sum(<< Div(c[1], Pow(T, 2)), c[2], Mul(Mul(Two, c[3]), T),
              Mul(Mul(FromInt(3), c[4]), Pow(T, 2)),
              Mul(Mul(FromInt(4), c[5]), Pow(T, 3)), Div(c[6], T) >>)
  ELSE Sum(<< Div(c[1], Pow(T, 2)), c[2], Mul(Mul(Two, c[3]), T),
              Mul(Mul(FromInt(3), c[4]), Pow(T, 2)), Div(c[5], T) >>)

\* dLnPws_ (and C_dLnPws): the derivative of LnPws with respect to TDryBulb.
C_dLnPws(TDryBulb, inIP) ==
  dLnPwsSum(IF inIP THEN GetTRankineFromTFahrenheit(TDryBulb)
                    ELSE GetTKelvinFromTCelsius(TDryBulb),
            IF inIP THEN (IF dIceRegime(TDryBulb, inIP) THEN dLnPwsIceIP ELSE dLnPwsWaterIP)
                    ELSE (IF dIceRegime(TDryBulb, inIP) THEN dLnPwsIceSI ELSE dLnPwsWaterSI),
            dIceRegime(TDryBulb, inIP))

(***************************************************************************)
(* The library functions.  Each operator yields what the C function        *)
(* returns, or Fail(message) when the call ends in exit(1): a failed       *)
(* ASSERT, or isIP() with the unit system undefined.                       *)
(***************************************************************************)
RangeMsgIP == "Dry bulb temperature is outside range [-148, 392]"
RangeMsgSI == "Dry bulb temperature is outside range [-100, 200]"
HumRatioMsg == "Humidity ratio is negative"
VapPresMsg == "Partial pressure of water vapor in moist air is negative"
RelHumMsg == "Relative humidity is outside range [0,1]"
SpecificHumMsg == "Specific humidity is outside range [0, 1)"
WetBulbMsg == "Wet bulb temperature is above dry bulb temperature"
ValidityMsg == "Partial pressure of water vapor is outside range of validity of equations"
DewPointConvMsg == "Convergence not reached in GetTDewPointFromVapPres. Stopping."
WetBulbConvMsg == "Convergence not reached in GetTWetBulbFromHumRatio. Stopping."

\* The rest of a function after a call it makes: the callee's exit(1) ends the
\* caller too, otherwise the caller goes on with the value returned.
Then(v, Rest(_)) == IF IsFail(v) THEN v ELSE Rest(v)

\* BOUNDS[0] and BOUNDS[1] of the source are BOUNDS(inIP)[1] and BOUNDS(inIP)[2].
BOUNDS(inIP) ==
  IF inIP THEN <<FromInt(-148), FromInt(392)>> ELSE <<FromInt(-100), FromInt(200)>>

InDomain(T, inIP) == Ge(T, BOUNDS(inIP)[1]) /\ Le(T, BOUNDS(inIP)[2])

\* The sentinel INVALID returned for a temperature out of range, in place of the ASSERT.
SatVapPresOrSentinel(TDryBulb) ==
  IF ~UnitsDefined THEN Fail(UnitsMsg)
  ELSE IF ~InDomain(TDryBulb, isIP) THEN INVALID
  ELSE C_GetSatVapPres(TDryBulb, isIP)

GetSatVapPres(TDryBulb) ==
  IF ~UnitsDefined THEN Fail(UnitsMsg)
  ELSE IF ~InDomain(TDryBulb, isIP) THEN Fail(IF isIP THEN RangeMsgIP ELSE RangeMsgSI)
  ELSE C_GetSatVapPres(TDryBulb, isIP)

\* GetSatVapPres of the two historical variants, Psychrometrics_SI.cpp lines
\* 531-549 (inIP false) and Psychrometrics_IP.cpp lines 516-534 (inIP true): the
\* ASSERT, whose Assert() ends in exit(1), then the correlation, split at the
\* freezing point, and the return of INVALID after the two range tests.
Historical_GetSatVapPres(TDryBulb, inIP) ==
  IF ~InDomain(TDryBulb, inIP) THEN Fail(IF inIP THEN RangeMsgIP ELSE RangeMsgSI)
  ELSE IF Ge(TDryBulb, BOUNDS(inIP)[1])
          /\ Le(TDryBulb, IF inIP THEN FREEZING_POINT_WATER_IP ELSE FREEZING_POINT_WATER_SI)
  THEN Exp(LnPwsSum(IF inIP THEN GetTRankineFromTFahrenheit(TDryBulb)
                            ELSE GetTKelvinFromTCelsius(TDryBulb),
                    IF inIP THEN LnPwsIceIP ELSE LnPwsIceSI, TRUE))
  ELSE IF Gt(TDryBulb, IF inIP THEN FREEZING_POINT_WATER_IP ELSE FREEZING_POINT_WATER_SI)
          /\ Le(TDryBulb, BOUNDS(inIP)[2])
  THEN Exp(LnPwsSum(IF inIP THEN GetTRankineFromTFahrenheit(TDryBulb)
                            ELSE GetTKelvinFromTCelsius(TDryBulb),
                    IF inIP THEN LnPwsWaterIP ELSE LnPwsWaterSI, FALSE))
  ELSE INVALID

dLnPws_(TDryBulb) ==
  IF ~UnitsDefined THEN Fail(UnitsMsg) ELSE C_dLnPws(TDryBulb, isIP)

\* The ratio returned as computed, without the floor of line 594.
HumRatioFromVapPresNoFloor(VapPres, Pressure) ==
  IF ~Ge(VapPres, Zero) THEN Fail(VapPresMsg)
  ELSE Div(Mul(D(621945, -6), VapPres), Sub(Pressure, VapPres))

GetHumRatioFromVapPres(VapPres, Pressure) ==
  IF ~Ge(VapPres, Zero) THEN Fail(VapPresMsg)
  ELSE Max(Div(Mul(D(621945, -6), VapPres), Sub(Pressure, VapPres)), MIN_HUM_RATIO)

GetVapPresFromHumRatio(HumRatio, Pressure) ==
  IF ~Ge(HumRatio, Zero) THEN Fail(HumRatioMsg)
  ELSE Div(Mul(Pressure, Max(HumRatio, MIN_HUM_RATIO)),
           Add(D(621945, -6), Max(HumRatio, MIN_HUM_RATIO)))

GetSpecificHumFromHumRatio(HumRatio) ==
  IF ~Ge(HumRatio, Zero) THEN Fail(HumRatioMsg)
  ELSE Div(Max(HumRatio, MIN_HUM_RATIO), Add(One, Max(HumRatio, MIN_HUM_RATIO)))

GetHumRatioFromSpecificHum(SpecificHum) ==
  IF ~(Ge(SpecificHum, Zero) /\ Lt(SpecificHum, One)) THEN Fail(SpecificHumMsg)
  ELSE Max(Div(SpecificHum, Sub(One, SpecificHum)), MIN_HUM_RATIO)

GetSatHumRatio(TDryBulb, Pressure) ==
  Then(GetSatVapPres(TDryBulb),
       LAMBDA SatVaporPres :
         Max(Div(Mul(D(621945, -6), SatVaporPres), Sub(Pressure, SatVaporPres)),
             MIN_HUM_RATIO))

\* ASHRAE eqn 33 and 35: the humidity ratio from the saturation humidity ratio at
\* the wet-bulb temperature (lines 492-509; bisection.cpp lines 122-136).
HumRatioEqn(TDryBulb, TWetBulb, Wsstar, inIP) ==
  IF inIP
  THEN IF Ge(TWetBulb, FREEZING_POINT_WATER_IP)
       THEN Div(Sub(Mul(Sub(FromInt(1093), Mul(D(556, -3), TWetBulb)), Wsstar),
                    Mul(D(240, -3), Sub(TDryBulb, TWetBulb))),
                Sub(Add(FromInt(1093), Mul(D(444, -3), TDryBulb)), TWetBulb))
       ELSE Div(Sub(Mul(Sub(FromInt(1220), Mul(D(4, -2), TWetBulb)), Wsstar),
                    Mul(D(240, -3), Sub(TDryBulb, TWetBulb))),
                Sub(Add(FromInt(1220), Mul(D(444, -3), TDryBulb)), Mul(D(48, -2), TWetBulb)))
  ELSE IF Ge(TWetBulb, FREEZING_POINT_WATER_SI)
       THEN Div(Sub(Mul(Sub(FromInt(2501), Mul(D(2326, -3), TWetBulb)), Wsstar),
                    Mul(D(1006, -3), Sub(TDryBulb, TWetBulb))),
                Sub(Add(FromInt(2501), Mul(D(186, -2), TDryBulb)), Mul(D(4186, -3), TWetBulb)))
       ELSE Div(Sub(Mul(Sub(FromInt(2830), Mul(D(24, -2), TWetBulb)), Wsstar),
                    Mul(D(1006, -3), Sub(TDryBulb, TWetBulb))),
                Sub(Add(FromInt(2830), Mul(D(186, -2), TDryBulb)), Mul(D(21, -1), TWetBulb)))

GetHumRatioFromTWetBulb(TDryBulb, TWetBulb, Pressure) ==
  IF ~Le(TWetBulb, TDryBulb) THEN Fail(WetBulbMsg)
  ELSE Then(GetSatHumRatio(TWetBulb, Pressure),
            LAMBDA Wsstar :
              IF ~UnitsDefined THEN Fail(UnitsMsg)
              ELSE Max(HumRatioEqn(TDryBulb, TWetBulb, Wsstar, isIP), MIN_HUM_RATIO))

GetVapPresFromRelHum(TDryBulb, RelHum) ==
  IF ~(Ge(RelHum, Zero) /\ Le(RelHum, One)) THEN Fail(RelHumMsg)
  ELSE Then(GetSatVapPres(TDryBulb), LAMBDA SatVapPres : Mul(RelHum, SatVapPres))

GetHumRatioFromRelHum(TDryBulb, RelHum, Pressure) ==
  IF ~(Ge(RelHum, Zero) /\ Le(RelHum, One)) THEN Fail(RelHumMsg)
  ELSE Then(GetVapPresFromRelHum(TDryBulb, RelHum),
            LAMBDA VapPres : GetHumRatioFromVapPres(VapPres, Pressure))

GetHumRatioFromTDewPoint(TDewPoint, Pressure) ==
  Then(GetSatVapPres(TDewPoint), LAMBDA VapPres : GetHumRatioFromVapPres(VapPres, Pressure))

GetHumRatioFromEnthalpyAndTDryBulb(MoistAirEnthalpy, TDryBulb) ==
  IF ~UnitsDefined THEN Fail(UnitsMsg)
  ELSE IF isIP
  THEN Max(Div(Sub(MoistAirEnthalpy, Mul(D(240, -3), TDryBulb)),
               Add(FromInt(1061), Mul(D(444, -3), TDryBulb))), MIN_HUM_RATIO)
  ELSE Max(Div(Sub(Div(MoistAirEnthalpy, FromInt(1000)), Mul(D(1006, -3), TDryBulb)),
               Add(FromInt(2501), Mul(D(186, -2), TDryBulb))), MIN_HUM_RATIO)

\* Lines 833-846.
GetDegreeOfSaturation(TDryBulb, HumRatio, Pressure) ==
  IF ~Ge(HumRatio, Zero) THEN Fail(HumRatioMsg)
  ELSE Then(GetSatHumRatio(TDryBulb, Pressure),
            LAMBDA SatHumRatio : Div(Max(HumRatio, MIN_HUM_RATIO), SatHumRatio))

\* Lines 849-863.
GetMoistAirEnthalpy(TDryBulb, HumRatio) ==
  IF ~Ge(HumRatio, Zero) THEN Fail(HumRatioMsg)
  ELSE IF ~UnitsDefined THEN Fail(UnitsMsg)
  ELSE IF isIP
  THEN Add(Mul(D(240, -3), TDryBulb),
           Mul(Max(HumRatio, MIN_HUM_RATIO), Add(FromInt(1061), Mul(D(444, -3), TDryBulb))))
  ELSE Mul(Add(Mul(D(1006, -3), TDryBulb),
               Mul(Max(HumRatio, MIN_HUM_RATIO), Add(FromInt(2501), Mul(D(186, -2), TDryBulb)))),
           FromInt(1000))

\* Lines 869-884.
GetMoistAirVolume(TDryBulb, HumRatio, Pressure) ==
  IF ~Ge(HumRatio, Zero) THEN Fail(HumRatioMsg)
  ELSE IF ~UnitsDefined THEN Fail(UnitsMsg)
  ELSE IF isIP
  THEN Div(Mul(Mul(R_DA_IP, GetTRankineFromTFahrenheit(TDryBulb)),
               Add(One, Mul(D(1607858, -6), Max(HumRatio, MIN_HUM_RATIO)))),
           Mul(FromInt(144), Pressure))
  ELSE Div(Mul(Mul(R_DA_SI, GetTKelvinFromTCelsius(TDryBulb)),
               Add(One, Mul(D(1607858, -6), Max(HumRatio, MIN_HUM_RATIO)))),
           Pressure)

(***************************************************************************)
(* GetTDewPointFromVapPres, lines 364-415: the entry, one pass of the      *)
(* do-while body, the loop condition and the returned value.               *)
(***************************************************************************)
\* The locals before the loop: the first guess and the target.  TDewPoint_iter,
\* lnVP_iter and d_lnVP are assigned in the body before they are read.
DewPointLocals(TDryBulb, VapPres, bounds) ==
  [TDryBulb |-> TDryBulb, BOUNDS |-> bounds, VapPres |-> VapPres,
   TDewPoint |-> TDryBulb, lnVP |-> Log(VapPres),
   TDewPoint_iter |-> TDryBulb, lnVP_iter |-> Zero, d_lnVP |-> Zero, index |-> 1]

\* The range taken as an open interval: its two end points rejected.
ValidityCheckOpen(TDryBulb, VapPres, bounds, lowest, highest) ==
  IF Gt(VapPres, lowest) /\ Lt(VapPres, highest)
  THEN DewPointLocals(TDryBulb, VapPres, bounds)
  ELSE Fail(ValidityMsg)

\* The validity-range ASSERT, lines 384-385, on the saturation pressures at the bounds.
ValidityCheck(TDryBulb, VapPres, bounds, lowest, highest) ==
  IF Ge(VapPres, lowest) /\ Le(VapPres, highest)
  THEN DewPointLocals(TDryBulb, VapPres, bounds)
  ELSE Fail(ValidityMsg)

\* Lines 369-394: the bounds of the unit system, the ASSERT and the first guess.
DewPointEntry(TDryBulb, VapPres) ==
  IF ~UnitsDefined THEN Fail(UnitsMsg)
  ELSE Then(GetSatVapPres(BOUNDS(isIP)[1]),
            LAMBDA lowest :
              Then(GetSatVapPres(BOUNDS(isIP)[2]),
                   LAMBDA highest :
                     ValidityCheck(TDryBulb, VapPres, BOUNDS(isIP), lowest, highest)))

\* Zero rejected together with the negative humidity ratios.
DewPointFromPositiveHumRatio(TDryBulb, HumRatio, Pressure) ==
  IF ~Gt(HumRatio, Zero) THEN Fail(HumRatioMsg)
  ELSE Then(GetVapPresFromHumRatio(HumRatio, Pressure),
            LAMBDA VapPres : DewPointEntry(TDryBulb, VapPres))

\* GetTDewPointFromHumRatio, lines 561-573, up to the loop of
\* GetTDewPointFromVapPres it ends in.
GetTDewPointFromHumRatioEntry(TDryBulb, HumRatio, Pressure) ==
  IF ~Ge(HumRatio, Zero) THEN Fail(HumRatioMsg)
  ELSE Then(GetVapPresFromHumRatio(HumRatio, Pressure),
            LAMBDA VapPres : DewPointEntry(TDryBulb, VapPres))

\* GetTDewPointFromRelHum, lines 261-272, up to the same loop.
GetTDewPointFromRelHumEntry(TDryBulb, RelHum) ==
  IF ~(Ge(RelHum, Zero) /\ Le(RelHum, One)) THEN Fail(RelHumMsg)
  ELSE Then(GetVapPresFromRelHum(TDryBulb, RelHum),
            LAMBDA VapPres : DewPointEntry(TDryBulb, VapPres))

\* GetTWetBulbFromHumRatio, lines 444-447, up to the same loop.
GetTWetBulbFromHumRatioEntry(TDryBulb, HumRatio, Pressure) ==
  IF ~Ge(HumRatio, Zero) THEN Fail(HumRatioMsg)
  ELSE GetTDewPointFromHumRatioEntry(TDryBulb, Max(HumRatio, MIN_HUM_RATIO), Pressure)

\* The Newton step alone, without lines 406-407.
NewEstimateUnclamped(TDewPoint_iter, lnVP_iter, lnVP, d_lnVP, bounds) ==
  Sub(TDewPoint_iter, Div(Sub(lnVP_iter, lnVP), d_lnVP))

\* The Newton step with the clamp into the bounds, lines 405-407.
NewEstimate(TDewPoint_iter, lnVP_iter, lnVP, d_lnVP, bounds) ==
  Min(Max(Sub(TDewPoint_iter, Div(Sub(lnVP_iter, lnVP), d_lnVP)), bounds[1]), bounds[2])

\* The iteration cap, line 409.
IterCapOK(index) == index <= MAX_ITER_COUNT

\* Lines 398-411 after the two calls: the assignments, the cap and index++.
NewtonUpdate(d, lnVP_iter, d_lnVP) ==
  IF ~IterCapOK(d.index) THEN Fail(DewPointConvMsg)
  ELSE [d EXCEPT !.TDewPoint_iter = d.TDewPoint, !.lnVP_iter = lnVP_iter,
                 !.d_lnVP = d_lnVP,
                 !.TDewPoint = NewEstimate(d.TDewPoint, lnVP_iter, d.lnVP, d_lnVP, d.BOUNDS),
                 !.index = d.index + 1]

\* A pass that takes a quarter of the Newton step.
NewtonBodyQuarterStep(d) ==
  Then(GetSatVapPres(d.TDewPoint),
       LAMBDA sat : Then(dLnPws_(d.TDewPoint),
                         LAMBDA der : NewtonUpdate(d, Log(sat), Mul(FromInt(4), der))))

\* One pass of the loop body, lines 398-411.
NewtonBody(d) ==
  Then(GetSatVapPres(d.TDewPoint),
       LAMBDA sat : Then(dLnPws_(d.TDewPoint), LAMBDA der : NewtonUpdate(d, Log(sat), der)))

\* A loop left after its first pass whatever the change of the guess.
NewtonSinglePass(d, tolerance) == FALSE

\* A loop that goes on when the change of the guess equals the tolerance.
NewtonContinuesAtTolerance(d, tolerance) ==
  Ge(Fabs(Sub(d.TDewPoint, d.TDewPoint_iter)), tolerance)

\* The loop condition, line 413: another pass is needed.
NewtonContinues(d, tolerance) ==
  Gt(Fabs(Sub(d.TDewPoint, d.TDewPoint_iter)), tolerance)

\* The last guess returned as it is, without the final min().
DewPointUnclamped(d) == d.TDewPoint

\* The returned value, line 414.
DewPointResult(d) == Min(d.TDewPoint, d.TDryBulb)

(***************************************************************************)
(* GetTWetBulbFromHumRatio, lines 433-475.                                 *)
(***************************************************************************)
\* The sum of the bounds in place of their mean.
MidpointNotHalved(inf, sup) == Add(inf, sup)

Midpoint(inf, sup) == Div(Add(inf, sup), Two)

\* Lines 449-452: the bracket [TDewPoint, TDryBulb] and its midpoint.
WetBulbLocals(w, TDewPoint) ==
  [TDryBulb |-> w.TDryBulb, Pressure |-> w.Pressure, HumRatio |-> w.HumRatio,
   TWetBulb |-> Midpoint(TDewPoint, w.TDryBulb), TDewPoint |-> TDewPoint,
   index |-> w.index, BoundedHumRatio |-> w.BoundedHumRatio,
   TWetBulbSup |-> w.TDryBulb, TWetBulbInf |-> TDewPoint, Wstar |-> Zero]

\* A loop that goes on when the width of the bracket equals the tolerance.
BisectionContinuesAtTolerance(w, tolerance) ==
  Ge(Sub(w.TWetBulbSup, w.TWetBulbInf), tolerance)

\* The loop condition, line 455.
BisectionContinues(w, tolerance) ==
  Gt(Sub(w.TWetBulbSup, w.TWetBulbInf), tolerance)

\* The lower bound moved to the upper bound instead of the midpoint.
NewBracketToSup(w, Wstar) ==
  IF Gt(Wstar, w.BoundedHumRatio)
  THEN [w EXCEPT !.Wstar = Wstar, !.TWetBulbSup = w.TWetBulb,
                 !.TWetBulb = Midpoint(w.TWetBulb, w.TWetBulbInf), !.index = w.index + 1]
  ELSE [w EXCEPT !.Wstar = Wstar, !.TWetBulbInf = w.TWetBulbSup,
                 !.TWetBulb = Midpoint(w.TWetBulbSup, w.TWetBulbSup), !.index = w.index + 1]

\* The two branches of lines 461-464 exchanged.
NewBracketReversed(w, Wstar) ==
  IF Gt(Wstar, w.BoundedHumRatio)
  THEN [w EXCEPT !.Wstar = Wstar, !.TWetBulbInf = w.TWetBulb,
                 !.TWetBulb = Midpoint(w.TWetBulbSup, w.TWetBulb), !.index = w.index + 1]
  ELSE [w EXCEPT !.Wstar = Wstar, !.TWetBulbSup = w.TWetBulb,
                 !.TWetBulb = Midpoint(w.TWetBulb, w.TWetBulbInf), !.index = w.index + 1]

\* The upper bound moved also when Wstar equals the target.
NewBracketAtLeast(w, Wstar) ==
  IF Ge(Wstar, w.BoundedHumRatio)
  THEN [w EXCEPT !.Wstar = Wstar, !.TWetBulbSup = w.TWetBulb,
                 !.TWetBulb = Midpoint(w.TWetBulb, w.TWetBulbInf), !.index = w.index + 1]
  ELSE [w EXCEPT !.Wstar = Wstar, !.TWetBulbInf = w.TWetBulb,
                 !.TWetBulb = Midpoint(w.TWetBulbSup, w.TWetBulb), !.index = w.index + 1]

\* Lines 461-467: the new bounds and the new guess.
NewBracket(w, Wstar) ==
  IF Gt(Wstar, w.BoundedHumRatio)
  THEN [w EXCEPT !.Wstar = Wstar, !.TWetBulbSup = w.TWetBulb,
                 !.TWetBulb = Midpoint(w.TWetBulb, w.TWetBulbInf), !.index = w.index + 1]
  ELSE [w EXCEPT !.Wstar = Wstar, !.TWetBulbInf = w.TWetBulb,
                 !.TWetBulb = Midpoint(w.TWetBulbSup, w.TWetBulb), !.index = w.index + 1]

\* One pass of the loop body, lines 457-471.
BisectionBody(w) ==
  Then(GetHumRatioFromTWetBulb(w.TDryBulb, w.TWetBulb, w.Pressure),
       LAMBDA Wstar :
         IF ~IterCapOK(w.index) THEN Fail(WetBulbConvMsg) ELSE NewBracket(w, Wstar))

(***************************************************************************)
(* The historical variants, Psychrometrics_SI.cpp and                      *)
(* Psychrometrics_IP.cpp:                                                  *)
(* the closed-form dew point and the bisection for the wet bulb.           *)
(***************************************************************************)
\* The regression of the warm range used above it too: no sentinel.
Historical_DewPointNoSentinel(TDryBulb, VP, alpha, inIP) ==
  IF inIP
  THEN Sum(<< D(10045, -2), Mul(D(33193, -3), alpha), Mul(Mul(D(2319, -3), alpha), alpha),
              Mul(D(17074, -5), Pow(alpha, 3)), Mul(D(12063, -4), PowReal(VP, D(1984, -4))) >>)
  ELSE Sum(<< D(654, -2), Mul(D(14526, -3), alpha), Mul(Mul(D(7389, -4), alpha), alpha),
              Mul(D(9486, -5), Pow(alpha, 3)), Mul(D(4569, -4), PowReal(VP, D(1984, -4))) >>)

\* The dew point of the historical variants before the final min(),
\* Psychrometrics_SI.cpp lines 279-285 (inIP false) and Psychrometrics_IP.cpp
\* lines 266-272 (inIP true): a regression for the warm range, one for the
\* range below it, and INVALID above.
Historical_DewPointRegression(TDryBulb, VP, alpha, inIP) ==
  IF inIP
  THEN IF Ge(TDryBulb, FromInt(32)) /\ Le(TDryBulb, FromInt(200))
       THEN Sum(<< D(10045, -2), Mul(D(33193, -3), alpha),
                   Mul(Mul(D(2319, -3), alpha), alpha), Mul(D(17074, -5), Pow(alpha, 3)),
                   Mul(D(12063, -4), PowReal(VP, D(1984, -4))) >>)
       ELSE IF Lt(TDryBulb, FromInt(32))
       THEN Sum(<< D(9012, -2), Mul(D(26142, -3), alpha), Mul(Mul(D(8927, -4), alpha), alpha) >>)
       ELSE INVALID
  ELSE IF Ge(TDryBulb, Zero) /\ Le(TDryBulb, FromInt(93))
       THEN Sum(<< D(654, -2), Mul(D(14526, -3), alpha),
                   Mul(Mul(D(7389, -4), alpha), alpha), Mul(D(9486, -5), Pow(alpha, 3)),
                   Mul(D(4569, -4), PowReal(VP, D(1984, -4))) >>)
       ELSE IF Lt(TDryBulb, Zero)
       THEN Sum(<< D(609, -2), Mul(D(12608, -3), alpha), Mul(Mul(D(4959, -4), alpha), alpha) >>)
       ELSE INVALID

\* VP of the regression: the vapor pressure in kPa in Psychrometrics_SI.cpp (line
\* 277), in Psi in Psychrometrics_IP.cpp (line 264).
Historical_VP(VapPres, inIP) == IF inIP THEN VapPres ELSE Div(VapPres, FromInt(1000))

\* GetTDewPointFromVapPres of the historical variants, Psychrometrics_SI.cpp lines
\* 268-287 and Psychrometrics_IP.cpp lines 255-274.
Historical_GetTDewPointFromVapPres(TDryBulb, VapPres, inIP) ==
  IF ~Ge(VapPres, Zero) THEN Fail(VapPresMsg)
  ELSE Min(Historical_DewPointRegression(TDryBulb, Historical_VP(VapPres, inIP),
                                         Log(Historical_VP(VapPres, inIP)), inIP),
           TDryBulb)

\* GetVapPresFromHumRatio of the historical variants, Psychrometrics_SI.cpp lines
\* 467-478 and Psychrometrics_IP.cpp lines 450-461: no floor on the humidity ratio.
Historical_GetVapPresFromHumRatio(HumRatio, Pressure) ==
  IF ~Ge(HumRatio, Zero) THEN Fail(HumRatioMsg)
  ELSE Div(Mul(Pressure, HumRatio), Add(D(621945, -6), HumRatio))

\* GetTDewPointFromHumRatio of the historical variants, Psychrometrics_SI.cpp lines
\* 428-440 and Psychrometrics_IP.cpp lines 413-425.
Historical_GetTDewPointFromHumRatio(TDryBulb, HumRatio, Pressure, inIP) ==
  IF ~Ge(HumRatio, Zero) THEN Fail(HumRatioMsg)
  ELSE Then(Historical_GetVapPresFromHumRatio(HumRatio, Pressure),
            LAMBDA VapPres : Historical_GetTDewPointFromVapPres(TDryBulb, VapPres, inIP))

\* GetSatHumRatio of the historical variants, Psychrometrics_SI.cpp lines 556-565
\* and Psychrometrics_IP.cpp lines 540-549.
Historical_GetSatHumRatio(TDryBulb, Pressure, inIP) ==
  Then(Historical_GetSatVapPres(TDryBulb, inIP),
       LAMBDA SatVaporPres :
         Div(Mul(D(621945, -6), SatVaporPres), Sub(Pressure, SatVaporPres)))

\* The quotient of GetHumRatioFromTWetBulb of the historical variants,
\* Psychrometrics_SI.cpp lines 366-367 and Psychrometrics_IP.cpp lines 352-357.
Historical_HumRatioEqn(TDryBulb, TWetBulb, Wsstar, inIP) ==
  IF ~inIP
  THEN Div(Sub(Mul(Sub(FromInt(2501), Mul(D(2326, -3), TWetBulb)), Wsstar),
               Mul(D(1006, -3), Sub(TDryBulb, TWetBulb))),
           Sub(Add(FromInt(2501), Mul(D(186, -2), TDryBulb)), Mul(D(4186, -3), TWetBulb)))
  ELSE IF Gt(TWetBulb, FromInt(32))
  THEN Div(Sub(Mul(Sub(FromInt(1093), Mul(D(556, -3), TWetBulb)), Wsstar),
               Mul(D(240, -3), Sub(TDryBulb, TWetBulb))),
           Sub(Add(FromInt(1093), Mul(D(444, -3), TDryBulb)), TWetBulb))
  ELSE Div(Sub(Mul(Sub(FromInt(1220), Mul(D(4, -2), TWetBulb)), Wsstar),
               Mul(D(240, -3), Sub(TDryBulb, TWetBulb))),
           Sub(Add(FromInt(1220), Mul(D(444, -3), TDryBulb)), Mul(D(48, -2), TWetBulb)))

\* GetHumRatioFromTWetBulb of the historical variants, Psychrometrics_SI.cpp lines
\* 355-368 and Psychrometrics_IP.cpp lines 339-358.
Historical_GetHumRatioFromTWetBulb(TDryBulb, TWetBulb, Pressure, inIP) ==
  IF ~Le(TWetBulb, TDryBulb) THEN Fail(WetBulbMsg)
  ELSE Then(Historical_GetSatHumRatio(TWetBulb, Pressure, inIP),
            LAMBDA Wsstar : Historical_HumRatioEqn(TDryBulb, TWetBulb, Wsstar, inIP))

\* GetTWetBulbFromHumRatio of the historical variants up to its loop,
\* Psychrometrics_SI.cpp lines 322-329 and Psychrometrics_IP.cpp lines 307-314: the
\* bracket [TDewPoint, TDryBulb] and its midpoint, or the exit of a failed ASSERT.
Historical_WetBulbLocals(TDryBulb, HumRatio, Pressure, TDewPoint) ==
  Then(TDewPoint,
       LAMBDA T : [TDryBulb |-> TDryBulb, Pressure |-> Pressure, HumRatio |-> HumRatio,
                   TWetBulb |-> Midpoint(T, TDryBulb), TDewPoint |-> T,
                   TWetBulbSup |-> TDryBulb, TWetBulbInf |-> T, Wstar |-> Zero])

\* The loop condition, Psychrometrics_SI.cpp line 332 and Psychrometrics_IP.cpp
\* line 317: the tolerance is the literal 0.001 in both.
Historical_BisectionContinues(w) == Gt(Sub(w.TWetBulbSup, w.TWetBulbInf), D(1, -3))

\* The new bounds and the new guess, Psychrometrics_SI.cpp lines 337-344 and
\* Psychrometrics_IP.cpp lines 322-329: Wstar is compared with HumRatio itself.
Historical_NewBracket(w, Wstar) ==
  IF Gt(Wstar, w.HumRatio)
  THEN [w EXCEPT !.Wstar = Wstar, !.TWetBulbSup = w.TWetBulb,
                 !.TWetBulb = Midpoint(w.TWetBulb, w.TWetBulbInf)]
  ELSE [w EXCEPT !.Wstar = Wstar, !.TWetBulbInf = w.TWetBulb,
                 !.TWetBulb = Midpoint(w.TWetBulbSup, w.TWetBulb)]

\* One pass of the loop body, Psychrometrics_SI.cpp lines 333-345 and
\* Psychrometrics_IP.cpp lines 318-330; the loop has no cap on its passes.
Historical_BisectionBody(w, inIP) ==
  Then(Historical_GetHumRatioFromTWetBulb(w.TDryBulb, w.TWetBulb, w.Pressure, inIP),
       LAMBDA Wstar : Historical_NewBracket(w, Wstar))

(***************************************************************************)
(* The R binding, bisection.cpp: the same two loops, with the unit system, *)
(* the bounds, the tolerance and the constants passed in as arguments and  *)
(* stop() in place of exit(1).                                             *)
(***************************************************************************)
C_DewPointConvMsg == "Convergence not reached in 'GetTDewPointFromVapPres()'. Stopping."
C_WetBulbConvMsg == "Convergence not reached in 'GetTWetBlbFromHumRatio()'. Stopping."

C_SatHumRatio(SatVaporPres, Pressure, MinHumRatio) ==
  StdMax(Div(Mul(D(621945, -6), SatVaporPres), Sub(Pressure, SatVaporPres)), MinHumRatio)

C_GetSatHumRatio(TDryBulb, Pressure, MinHumRatio, inIP) ==
  C_SatHumRatio(C_GetSatVapPres(TDryBulb, inIP), Pressure, MinHumRatio)

C_GetHumRatioFromTWetBulb(TDryBulb, TWetBulb, Pressure, MinHumRatio, inIP) ==
  StdMax(HumRatioEqn(TDryBulb, TWetBulb,
                     C_GetSatHumRatio(TWetBulb, Pressure, MinHumRatio, inIP), inIP),
         MinHumRatio)

\* Lines 163-168: the locals of C_GetTDewPointFromVapPres before the loop.
C_DewPointLocals(TDryBulb, VapPres, BOUNDS_Lower, BOUNDS_Upper, MaxIterCount, TOLERANCE, inIP) ==
  [MAX_ITER_COUNT |-> MaxIterCount, TDryBulb |-> TDryBulb, inIP |-> inIP,
   BOUNDS |-> <<BOUNDS_Lower, BOUNDS_Upper>>, VapPres |-> VapPres,
   TDewPoint |-> TDryBulb, lnVP |-> Log(VapPres),
   TDewPoint_iter |-> TDryBulb, lnVP_iter |-> Zero, d_lnVP |-> Zero, index |-> 1,
   TOLERANCE |-> TOLERANCE]

\* Lines 171-186 after the two calls: the assignments, the cap and index++.
C_NewtonUpdate(d, lnVP_iter, d_lnVP) ==
  IF d.index > d.MAX_ITER_COUNT THEN Fail(C_DewPointConvMsg)
  ELSE [d EXCEPT !.TDewPoint_iter = d.TDewPoint, !.lnVP_iter = lnVP_iter,
                 !.d_lnVP = d_lnVP,
                 !.TDewPoint =
                   StdMin(StdMax(Sub(d.TDewPoint, Div(Sub(lnVP_iter, d.lnVP), d_lnVP)),
                                 d.BOUNDS[1]), d.BOUNDS[2]),
                 !.index = d.index + 1]

\* One pass of the loop body, lines 171-186.
C_NewtonBody(d) ==
  C_NewtonUpdate(d, Log(C_GetSatVapPres(d.TDewPoint, d.inIP)), C_dLnPws(d.TDewPoint, d.inIP))

\* The returned value, line 189.
C_DewPointResult(d) == StdMin(d.TDewPoint, d.TDryBulb)

\* Lines 229-234: the locals of C_GetTWetBulbFromHumRatio before the loop.
C_WetBulbLocals(TDryBulb, TDewPoint, BoundedHumRatio, Pressure, MinHumRatio, MaxIterCount, TOLERANCE, inIP) ==
  [MAX_ITER_COUNT |-> MaxIterCount, MIN_HUM_RATIO |-> MinHumRatio,
   TDryBulb |-> TDryBulb, inIP |-> inIP, Pressure |-> Pressure,
   TWetBulb |-> Midpoint(TDewPoint, TDryBulb), TDewPoint |-> TDewPoint, index |-> 1,
   BoundedHumRatio |-> BoundedHumRatio, TWetBulbSup |-> TDryBulb,
   TWetBulbInf |-> TDewPoint, Wstar |-> Zero, TOLERANCE |-> TOLERANCE]

\* One pass of the loop body, lines 239-254.
C_BisectionBody(w) ==
  IF w.index > w.MAX_ITER_COUNT THEN Fail(C_WetBulbConvMsg)
  ELSE NewBracket(w, C_GetHumRatioFromTWetBulb(w.TDryBulb, w.TWetBulb, w.Pressure,
                                               w.MIN_HUM_RATIO, w.inIP))

(***************************************************************************)
(* The arguments the caller passes.  Temperatures are plain numbers, read  *)
(* as degrees F or degrees C by the unit system current at the call.       *)
(***************************************************************************)
NumTemps == 6
NumHumRatios == 3

\* -160, -70, 20, 110, 200, 290, 380, ..., the four bounds of the correlation and
\* the two triple points.
GridTemp(i) == FromInt(90 * i - 160)
Temps ==
  {GridTemp(i) : i \in 0..NumTemps} \cup {BOUNDS(TRUE)[1], BOUNDS(TRUE)[2],
                                           BOUNDS(FALSE)[1], BOUNDS(FALSE)[2]}
  \cup {TRIPLE_POINT_WATER_IP, TRIPLE_POINT_WATER_SI}

\* The arguments of GetSatVapPres: the temperatures, and values just outside the
\* four bounds.
SatVapPresInputs == Temps \cup {D(-14801, -2), D(39201, -2), D(-10001, -2), D(20001, -2)}

\* Vapor pressures: the saturation pressure of every temperature of each domain,
\* values just outside the two validity ranges, zero and a negative one.
VapPresInputs ==
  UNION {{C_GetSatVapPres(T, inIP) : T \in {U \in Temps : InDomain(U, inIP)}} \cup
         {Mul(D(999, -3), C_GetSatVapPres(BOUNDS(inIP)[1], inIP)),
          Mul(D(1001, -3), C_GetSatVapPres(BOUNDS(inIP)[2], inIP))} : inIP \in BOOLEAN}
  \cup {Zero, FromInt(-1)}

\* Humidity ratios: negative, zero, below the floor, and 0.004, 0.016, 0.064, ...
HumRatioInputs ==
  {D(-1, -3), Zero, D(1, -8)} \cup {D(4^i, -3) : i \in 1..NumHumRatios}

\* Standard atmospheric pressure in Pa and in Psi.
PressureInputs == {FromInt(101325), D(14696, -3)}

\* The dry-bulb temperatures of the calls that take more than a temperature.
DryBulbInputs == {GridTemp(2), GridTemp(3)}

\* Arguments of the closed-form humidity functions: vapor pressures below, at and
\* above the two pressures; relative and specific humidities in and out of range;
\* enthalpies.
HumVapPresInputs == {FromInt(-1), Zero, FromInt(1000), FromInt(101325), FromInt(200000)}
RelHumInputs == {D(-1, -1), Zero, D(5, -1), One, D(11, -1)}
SpecificHumInputs == {D(-1, -1), Zero, D(5, -1), One}
EnthalpyInputs == {FromInt(-100000), Zero, FromInt(50000)}

\* Wet-bulb temperatures, and the humidity ratios GetHumRatioFromTWetBulb gives for
\* them (lines 479-512), which a caller passes back to GetTWetBulbFromHumRatio.
WetBulbInputs == {FromInt(0), D(5, -2), FromInt(15), FromInt(20), FromInt(100), FromInt(110)}

\* The dry-bulb temperatures of the GetTWetBulbFromHumRatio calls: 2 is just above
\* the freezing point of water in SI, 200 is the upper bound in SI.
WetBulbDryBulbInputs == DryBulbInputs \cup {FromInt(2), FromInt(200)}
RoundTripHumRatios(TDryBulb, Pressure) ==
  {C_GetHumRatioFromTWetBulb(TDryBulb, TWetBulb, Pressure, MIN_HUM_RATIO, inIP) :
     inIP \in BOOLEAN, TWetBulb \in {U \in WetBulbInputs : Le(U, TDryBulb)}}

\* What the R wrappers pass for a unit system.
C_Tolerance(inIP) == IF inIP THEN Div(Mul(D(1, -3), FromInt(9)), FromInt(5)) ELSE D(1, -3)
C_VapPresInputsIP == {C_GetSatVapPres(T, TRUE) : T \in {U \in Temps : InDomain(U, TRUE)}}
C_VapPresInputsSI == {C_GetSatVapPres(T, FALSE) : T \in {U \in Temps : InDomain(U, FALSE)}}
C_VapPresInputs(inIP) == IF inIP THEN C_VapPresInputsIP ELSE C_VapPresInputsSI
C_Pressure(inIP) == IF inIP THEN D(14696, -3) ELSE FromInt(101325)

\* The arguments of a direct call of the exported C_GetTDewPointFromVapPres: the
\* tolerance is the wrappers' or half a degree, and -99.5 is a dry bulb half a degree
\* above the lower bound in SI.
C_ToleranceInputs(inIP) == {C_Tolerance(inIP), D(5, -1)}
C_DryBulbInputs ==
  DryBulbInputs \cup {TRIPLE_POINT_WATER_IP, TRIPLE_POINT_WATER_SI, D(-995, -1)}

\* The arguments of a direct call of the exported C_GetTWetBulbFromHumRatio: -0.004
\* is a dew point four times the SI tolerance below a dry bulb of 0.
C_WetBulbDryBulbInputs == DryBulbInputs \cup {Zero}
C_DewPointInputs == {GridTemp(1), GridTemp(2), D(-4, -3)}

Init ==
  /\ PSYCHROLIB_UNITS = "UNDEFINED"
  /\ PSYCHROLIB_TOLERANCE = One
  /\ pc = "idle"
  /\ fn = "none"
  /\ arg = <<>>
  /\ dp = [none |-> TRUE]
  /\ wb = [none |-> TRUE]
  /\ ret = [none |-> TRUE]
  /\ msg = ""
  /\ setter = [pc |-> "none", overlap |-> FALSE]
  /\ seen = [off |-> TRUE]

\* The second thread at the entry of a call of the caller: the call overlaps its
\* SetUnitSystem call when that one is past its first assignment and before its last.
AtEntry(t) == [t EXCEPT !.overlap = (t.pc \in {"wrote_units", "read_units"})]

\* The second thread when the caller calls SetUnitSystem: the two calls overlap
\* when the second thread is inside its own.
AtSetUnitSystem(t) ==
  IF t.pc = "none" THEN t ELSE [t EXCEPT !.raced = (t.pc \in {"wrote_units", "read_units"})]

\* The calls whose returned value the history may keep.
Tracked ==
  { <<"GetTDewPointFromVapPres", <<GridTemp(3), C_GetSatVapPres(GridTemp(2), inIP)>> >> :
      inIP \in BOOLEAN } \cup
  { <<"GetTWetBulbFromHumRatio", <<GridTemp(3), D(4, -3), P>> >> : P \in PressureInputs }

\* The history after the caller took a returned value: as it was, or, when it is
\* empty and the call is a tracked one, that call, the unit system and the value.
Remember(h) ==
  {h} \cup (IF h = [none |-> TRUE] /\ <<fn, arg>> \in Tracked
            THEN {[fn |-> fn, arg |-> arg, ret |-> ret, units |-> PSYCHROLIB_UNITS,
                   between |-> FALSE]}
            ELSE {})

\* The history after SetUnitSystem(Units): the unit system has been switched away
\* from the one of the call kept.
Between(h, Units) ==
  IF h \in {[none |-> TRUE], [off |-> TRUE]} \/ Units = h.units THEN h
  ELSE [h EXCEPT !.between = TRUE]

\* exit(1): the process ends and no call returns.
Exits(m) == pc' = "exited" /\ msg' = m /\ ret' = [none |-> TRUE]
\* The call returns v to the caller.
Returns(v) == pc' = "returned" /\ ret' = v /\ msg' = msg

\* A tolerance of a millionth of a degree.
ToleranceMillionth(Units) == D(1, -6)

\* One tolerance, 0.001, whatever the unit system.
ToleranceSame(Units) == D(1, -3)

\* The tolerance assigned for IP only: the else branch of line 136 left out.
ToleranceOnlyForIP(Units) ==
  IF Units = "IP" THEN Div(Mul(D(1, -3), FromInt(9)), FromInt(5)) ELSE PSYCHROLIB_TOLERANCE

\* Lines 126-138.
ToleranceOf(Units) == IF Units = "IP" THEN Div(Mul(D(1, -3), FromInt(9)), FromInt(5)) ELSE D(1, -3)

\* The unit system assigned and the tolerance left as it was.
SetUnitSystemUnitsOnly(Units) ==
  /\ pc = "idle"
  /\ PSYCHROLIB_UNITS' = Units
  /\ UNCHANGED <<PSYCHROLIB_TOLERANCE, pc, fn, arg, dp, wb, ret, msg>>
  /\ setter' = AtSetUnitSystem(setter)
  /\ seen' = Between(seen, Units)

SetUnitSystem(Units) ==
  /\ pc = "idle"
  /\ PSYCHROLIB_UNITS' = Units
  /\ PSYCHROLIB_TOLERANCE' = ToleranceOf(Units)
  /\ UNCHANGED <<pc, fn, arg, dp, wb, ret, msg>>
  /\ setter' = AtSetUnitSystem(setter)
  /\ seen' = Between(seen, Units)

\* Lines 141-146.
GetUnitSystem ==
  /\ pc = "idle"
  /\ fn' = "GetUnitSystem" /\ arg' = <<>>
  /\ Returns([units |-> PSYCHROLIB_UNITS])
  /\ setter' = AtEntry(setter)
  /\ UNCHANGED <<PSYCHROLIB_UNITS, PSYCHROLIB_TOLERANCE, dp, wb, seen>>

\* A call that leaves the tolerance at its start-up value, 1.
CallResettingTolerance(f, a, r) ==
  /\ pc = "idle"
  /\ fn' = f /\ arg' = a
  /\ IF IsFail(r) THEN Exits(r.fail) ELSE Returns(r)
  /\ PSYCHROLIB_TOLERANCE' = One
  /\ setter' = AtEntry(setter)
  /\ UNCHANGED <<PSYCHROLIB_UNITS, dp, wb, seen>>

\* A call of a function without a loop: it returns r, or exits when r is a failure.
Call(f, a, r) ==
  /\ pc = "idle"
  /\ fn' = f /\ arg' = a
  /\ IF IsFail(r) THEN Exits(r.fail) ELSE Returns(r)
  /\ setter' = AtEntry(setter)
  /\ UNCHANGED <<PSYCHROLIB_UNITS, PSYCHROLIB_TOLERANCE, dp, wb, seen>>

Call_GetSatVapPres ==
  \E T \in SatVapPresInputs : Call("GetSatVapPres", <<T>>, GetSatVapPres(T))

\* A call of GetSatVapPres of a historical variant; not-a-number is among the
\* arguments.
Call_Historical_GetSatVapPres ==
  \E inIP \in BOOLEAN, T \in SatVapPresInputs \cup {NaN} :
    Call(IF inIP THEN "Psychrometrics_IP.GetSatVapPres" ELSE "Psychrometrics_SI.GetSatVapPres",
         <<T>>, Historical_GetSatVapPres(T, inIP))

\* The call f(a) has reached GetTDewPointFromVapPres, whose entry gave d: the locals
\* before the loop, or the failure of a check.  w is the frame of the
\* GetTWetBulbFromHumRatio call this is part of (if any).
EnterDewPoint(f, a, d, w) ==
  /\ pc = "idle"
  /\ fn' = f /\ arg' = a /\ wb' = w
  /\ IF IsFail(d)
     THEN Exits(d.fail) /\ dp' = [none |-> TRUE]
     ELSE pc' = "newton" /\ dp' = d /\ ret' = [none |-> TRUE] /\ msg' = msg
  /\ setter' = AtEntry(setter)
  /\ UNCHANGED <<PSYCHROLIB_UNITS, PSYCHROLIB_TOLERANCE, seen>>

Call_GetTDewPointFromVapPres ==
  \E TDryBulb \in Temps, VapPres \in VapPresInputs :
    EnterDewPoint("GetTDewPointFromVapPres", <<TDryBulb, VapPres>>,
                  DewPointEntry(TDryBulb, VapPres), [none |-> TRUE])

\* Lines 561-573; a failed ASSERT exits before the solver is entered.
Call_GetTDewPointFromHumRatio ==
  \E TDryBulb \in DryBulbInputs, HumRatio \in HumRatioInputs, Pressure \in PressureInputs :
    EnterDewPoint("GetTDewPointFromHumRatio", <<TDryBulb, HumRatio, Pressure>>,
                  GetTDewPointFromHumRatioEntry(TDryBulb, HumRatio, Pressure),
                  [none |-> TRUE])

\* Lines 261-272.
Call_GetTDewPointFromRelHum ==
  \E TDryBulb \in DryBulbInputs, RelHum \in RelHumInputs :
    EnterDewPoint("GetTDewPointFromRelHum", <<TDryBulb, RelHum>>,
                  GetTDewPointFromRelHumEntry(TDryBulb, RelHum), [none |-> TRUE])

\* Lines 439-447; the dew point is solved by GetTDewPointFromHumRatio for the
\* floor-bounded humidity ratio.
Call_GetTWetBulbFromHumRatio ==
  \E TDryBulb \in WetBulbDryBulbInputs, Pressure \in PressureInputs :
    \E HumRatio \in HumRatioInputs \cup RoundTripHumRatios(TDryBulb, Pressure) :
      EnterDewPoint("GetTWetBulbFromHumRatio", <<TDryBulb, HumRatio, Pressure>>,
                    GetTWetBulbFromHumRatioEntry(TDryBulb, HumRatio, Pressure),
                    [TDryBulb |-> TDryBulb, Pressure |-> Pressure, HumRatio |-> HumRatio,
                     index |-> 1, BoundedHumRatio |-> Max(HumRatio, MIN_HUM_RATIO)])

\* GetTWetBulbFromHumRatio has its bracket w: it returns at once when the loop
\* condition is false.
EnterBisection(w) ==
  /\ wb' = w
  /\ IF BisectionContinues(w, PSYCHROLIB_TOLERANCE)
     THEN pc' = "bisect" /\ UNCHANGED <<ret, msg>>
     ELSE Returns(w.TWetBulb)

\* A pass of the Newton loop ended with the locals d, or failed.
NewtonStep(d) ==
  IF IsFail(d) THEN Exits(d.fail) /\ UNCHANGED <<dp, wb>>
  ELSE /\ dp' = d
       /\ IF NewtonContinues(d, PSYCHROLIB_TOLERANCE)
          THEN UNCHANGED <<pc, wb, ret, msg>>
          ELSE IF fn = "GetTWetBulbFromHumRatio"
          THEN EnterBisection(WetBulbLocals(wb, DewPointResult(d)))
          ELSE Returns(DewPointResult(d)) /\ wb' = wb

\* One pass of the do-while loop of GetTDewPointFromVapPres; after the last one
\* the function returns, to the caller or into GetTWetBulbFromHumRatio.
NewtonIteration ==
  /\ pc = "newton"
  /\ NewtonStep(NewtonBody(dp))
  /\ UNCHANGED <<PSYCHROLIB_UNITS, PSYCHROLIB_TOLERANCE, fn, arg, setter, seen>>

\* A pass of the bisection loop ended with the locals w, or failed.
BisectionStep(w, tolerance) ==
  IF IsFail(w) THEN Exits(w.fail) /\ wb' = wb
  ELSE /\ wb' = w
       /\ IF BisectionContinues(w, tolerance)
          THEN UNCHANGED <<pc, ret, msg>>
          ELSE Returns(w.TWetBulb)

\* One pass of the while loop of GetTWetBulbFromHumRatio.
BisectionIteration ==
  /\ pc = "bisect"
  /\ BisectionStep(BisectionBody(wb), PSYCHROLIB_TOLERANCE)
  /\ UNCHANGED <<PSYCHROLIB_UNITS, PSYCHROLIB_TOLERANCE, fn, arg, dp, setter, seen>>

(***************************************************************************)
(* The closed-form humidity functions.                                     *)
(***************************************************************************)
Call_GetHumRatioFromVapPres ==
  \E VapPres \in HumVapPresInputs, Pressure \in PressureInputs :
    Call("GetHumRatioFromVapPres", <<VapPres, Pressure>>,
         GetHumRatioFromVapPres(VapPres, Pressure))

Call_GetVapPresFromHumRatio ==
  \E HumRatio \in HumRatioInputs, Pressure \in PressureInputs :
    Call("GetVapPresFromHumRatio", <<HumRatio, Pressure>>,
         GetVapPresFromHumRatio(HumRatio, Pressure))

Call_GetSpecificHumFromHumRatio ==
  \E HumRatio \in HumRatioInputs :
    Call("GetSpecificHumFromHumRatio", <<HumRatio>>, GetSpecificHumFromHumRatio(HumRatio))

Call_GetHumRatioFromSpecificHum ==
  \E SpecificHum \in SpecificHumInputs :
    Call("GetHumRatioFromSpecificHum", <<SpecificHum>>, GetHumRatioFromSpecificHum(SpecificHum))

Call_GetSatHumRatio ==
  \E TDryBulb \in Temps, Pressure \in PressureInputs :
    Call("GetSatHumRatio", <<TDryBulb, Pressure>>, GetSatHumRatio(TDryBulb, Pressure))

Call_GetHumRatioFromTWetBulb ==
  \E TDryBulb \in DryBulbInputs, TWetBulb \in {GridTemp(1), GridTemp(2), GridTemp(3)},
     Pressure \in PressureInputs :
    Call("GetHumRatioFromTWetBulb", <<TDryBulb, TWetBulb, Pressure>>,
         GetHumRatioFromTWetBulb(TDryBulb, TWetBulb, Pressure))

Call_GetHumRatioFromRelHum ==
  \E TDryBulb \in DryBulbInputs, RelHum \in RelHumInputs, Pressure \in PressureInputs :
    Call("GetHumRatioFromRelHum", <<TDryBulb, RelHum, Pressure>>,
         GetHumRatioFromRelHum(TDryBulb, RelHum, Pressure))

Call_GetHumRatioFromTDewPoint ==
  \E TDewPoint \in Temps, Pressure \in PressureInputs :
    Call("GetHumRatioFromTDewPoint", <<TDewPoint, Pressure>>,
         GetHumRatioFromTDewPoint(TDewPoint, Pressure))

Call_GetHumRatioFromEnthalpyAndTDryBulb ==
  \E MoistAirEnthalpy \in EnthalpyInputs, TDryBulb \in DryBulbInputs :
    Call("GetHumRatioFromEnthalpyAndTDryBulb", <<MoistAirEnthalpy, TDryBulb>>,
         GetHumRatioFromEnthalpyAndTDryBulb(MoistAirEnthalpy, TDryBulb))

(***************************************************************************)
(* The R binding: its functions read no global.                            *)
(***************************************************************************)
EnterC_DewPoint(a, d) ==
  /\ pc = "idle"
  /\ fn' = "C_GetTDewPointFromVapPres" /\ arg' = a /\ dp' = d
  /\ pc' = "C_newton"
  /\ setter' = AtEntry(setter)
  /\ UNCHANGED <<PSYCHROLIB_UNITS, PSYCHROLIB_TOLERANCE, wb, ret, msg, seen>>

Call_C_GetTDewPointFromVapPres ==
  \E inIP \in BOOLEAN, TDryBulb \in C_DryBulbInputs :
    \E VapPres \in C_VapPresInputs(inIP), TOLERANCE \in C_ToleranceInputs(inIP) :
      EnterC_DewPoint(<<TDryBulb, VapPres, BOUNDS(inIP)[1], BOUNDS(inIP)[2], MAX_ITER_COUNT,
                        TOLERANCE, inIP>>,
                      C_DewPointLocals(TDryBulb, VapPres, BOUNDS(inIP)[1], BOUNDS(inIP)[2],
                                       MAX_ITER_COUNT, TOLERANCE, inIP))

\* A pass of the Newton loop ended with the locals d, or failed.
C_NewtonStep(d) ==
  IF IsFail(d) THEN Exits(d.fail) /\ dp' = dp
  ELSE /\ dp' = d
       /\ IF NewtonContinues(d, d.TOLERANCE)
          THEN UNCHANGED <<pc, ret, msg>>
          ELSE Returns(C_DewPointResult(d))

\* One pass of the do-while loop of C_GetTDewPointFromVapPres.
C_NewtonIteration ==
  /\ pc = "C_newton"
  /\ C_NewtonStep(C_NewtonBody(dp))
  /\ UNCHANGED <<PSYCHROLIB_UNITS, PSYCHROLIB_TOLERANCE, fn, arg, wb, setter, seen>>

EnterC_Bisection(a, w) ==
  /\ pc = "idle"
  /\ fn' = "C_GetTWetBulbFromHumRatio" /\ arg' = a /\ wb' = w
  /\ IF BisectionContinues(w, w.TOLERANCE)
     THEN pc' = "C_bisect" /\ UNCHANGED <<ret, msg>>
     ELSE Returns(w.TWetBulb)
  /\ setter' = AtEntry(setter)
  /\ UNCHANGED <<PSYCHROLIB_UNITS, PSYCHROLIB_TOLERANCE, dp, seen>>

\* The dew point is an argument here; the R wrapper passes one not above TDryBulb.
Call_C_GetTWetBulbFromHumRatio ==
  \E inIP \in BOOLEAN, TDryBulb \in C_WetBulbDryBulbInputs, TDewPoint \in C_DewPointInputs,
     BoundedHumRatio \in {D(4, -3), D(16, -3)} :
    /\ Le(TDewPoint, TDryBulb)
    /\ EnterC_Bisection(<<TDryBulb, TDewPoint, BoundedHumRatio, C_Pressure(inIP),
                          MIN_HUM_RATIO, MAX_ITER_COUNT, C_Tolerance(inIP), inIP>>,
                        C_WetBulbLocals(TDryBulb, TDewPoint, BoundedHumRatio,
                                        C_Pressure(inIP), MIN_HUM_RATIO, MAX_ITER_COUNT,
                                        C_Tolerance(inIP), inIP))

\* One pass of the while loop of C_GetTWetBulbFromHumRatio.
C_BisectionIteration ==
  /\ pc = "C_bisect"
  /\ BisectionStep(C_BisectionBody(wb), wb.TOLERANCE)
  /\ UNCHANGED <<PSYCHROLIB_UNITS, PSYCHROLIB_TOLERANCE, fn, arg, dp, setter, seen>>

(***************************************************************************)
(* CalcPsychrometricsFromRelHum, lines 1070-1092: the humidity ratio, the  *)
(* two loops of GetTWetBulbFromHumRatio, the loop of                       *)
(* GetTDewPointFromHumRatio and the four closed-form outputs.              *)
(***************************************************************************)
\* Lines 1083-1085: the ASSERT and *HumRatio.
CalcHumRatio(TDryBulb, RelHum, Pressure) ==
  IF ~(Ge(RelHum, Zero) /\ Le(RelHum, One)) THEN Fail(RelHumMsg)
  ELSE GetHumRatioFromRelHum(TDryBulb, RelHum, Pressure)

\* Lines 1088-1091 and the values stored through the seven pointers.
CalcOutputs(TDryBulb, Pressure, HumRatio, TWetBulb, TDewPoint) ==
  Then(GetVapPresFromHumRatio(HumRatio, Pressure),
       LAMBDA VapPres :
         Then(GetMoistAirEnthalpy(TDryBulb, HumRatio),
              LAMBDA MoistAirEnthalpy :
                Then(GetMoistAirVolume(TDryBulb, HumRatio, Pressure),
                     LAMBDA MoistAirVolume :
                       Then(GetDegreeOfSaturation(TDryBulb, HumRatio, Pressure),
                            LAMBDA DegreeOfSaturation :
                              [VapPres |-> VapPres, HumRatio |-> HumRatio,
                               TWetBulb |-> TWetBulb, TDewPoint |-> TDewPoint,
                               MoistAirEnthalpy |-> MoistAirEnthalpy,
                               MoistAirVolume |-> MoistAirVolume,
                               DegreeOfSaturation |-> DegreeOfSaturation]))))

\* Line 1086 entered with *HumRatio = h: GetTWetBulbFromHumRatio is at the loop of
\* GetTDewPointFromVapPres with the locals d; or a check of lines 1083-1086 failed.
CalcEnter(a, h, d) ==
  /\ pc = "idle"
  /\ fn' = "CalcPsychrometricsFromRelHum" /\ arg' = a
  /\ IF IsFail(d)
     THEN Exits(d.fail) /\ dp' = [none |-> TRUE] /\ wb' = [none |-> TRUE]
     ELSE /\ pc' = "calc_newton" /\ dp' = d /\ ret' = [none |-> TRUE] /\ msg' = msg
          /\ wb' = [TDryBulb |-> a[1], Pressure |-> a[3], HumRatio |-> h,
                    index |-> 1, BoundedHumRatio |-> Max(h, MIN_HUM_RATIO)]
  /\ setter' = AtEntry(setter)
  /\ UNCHANGED <<PSYCHROLIB_UNITS, PSYCHROLIB_TOLERANCE, seen>>

\* Lines 1083-1086, up to the first loop.
CalcWetBulbEntry(TDryBulb, h, Pressure) ==
  Then(h, LAMBDA HumRatio : GetTWetBulbFromHumRatioEntry(TDryBulb, HumRatio, Pressure))

Call_CalcPsychrometricsFromRelHum ==
  \E TDryBulb \in DryBulbInputs, RelHum \in RelHumInputs, Pressure \in PressureInputs :
    CalcEnter(<<TDryBulb, RelHum, Pressure>>, CalcHumRatio(TDryBulb, RelHum, Pressure),
              CalcWetBulbEntry(TDryBulb, CalcHumRatio(TDryBulb, RelHum, Pressure), Pressure))

\* Line 1087 entered with *TWetBulb in w: GetTDewPointFromHumRatio is at its loop
\* with the locals d, or has failed a check.
CalcEnterDewPoint(w, d) ==
  /\ wb' = w
  /\ IF IsFail(d)
     THEN Exits(d.fail) /\ dp' = dp
     ELSE pc' = "calc_dewpoint" /\ dp' = d /\ UNCHANGED <<ret, msg>>

\* The bracket w of line 1086 is set: the loop is entered, or skipped.
CalcEnterBisection(w) ==
  IF BisectionContinues(w, PSYCHROLIB_TOLERANCE)
  THEN wb' = w /\ pc' = "calc_bisect" /\ UNCHANGED <<dp, ret, msg>>
  ELSE CalcEnterDewPoint(w, GetTDewPointFromHumRatioEntry(w.TDryBulb, w.HumRatio, w.Pressure))

\* A pass of the Newton loop inside line 1086 ended with the locals d, or failed.
CalcNewtonStep(d) ==
  IF IsFail(d) THEN Exits(d.fail) /\ UNCHANGED <<dp, wb>>
  ELSE IF NewtonContinues(d, PSYCHROLIB_TOLERANCE)
  THEN dp' = d /\ UNCHANGED <<pc, wb, ret, msg>>
  ELSE CalcEnterBisection(WetBulbLocals(wb, DewPointResult(d)))

Calc_NewtonIteration ==
  /\ pc = "calc_newton"
  /\ CalcNewtonStep(NewtonBody(dp))
  /\ UNCHANGED <<PSYCHROLIB_UNITS, PSYCHROLIB_TOLERANCE, fn, arg, setter, seen>>

\* A pass of the bisection loop inside line 1086 ended with the locals w, or failed.
CalcBisectionStep(w) ==
  IF IsFail(w) THEN Exits(w.fail) /\ UNCHANGED <<dp, wb>>
  ELSE CalcEnterBisection(w)

Calc_BisectionIteration ==
  /\ pc = "calc_bisect"
  /\ CalcBisectionStep(BisectionBody(wb))
  /\ UNCHANGED <<PSYCHROLIB_UNITS, PSYCHROLIB_TOLERANCE, fn, arg, setter, seen>>

\* A pass of the Newton loop inside line 1087 ended with the locals d, or failed;
\* after the last pass lines 1088-1091 fill the other outputs and the function
\* returns.
CalcDewPointStep(d, out) ==
  IF IsFail(d) THEN Exits(d.fail) /\ UNCHANGED <<dp, wb>>
  ELSE /\ dp' = d /\ wb' = wb
       /\ IF NewtonContinues(d, PSYCHROLIB_TOLERANCE) THEN UNCHANGED <<pc, ret, msg>>
          ELSE IF IsFail(out) THEN Exits(out.fail)
          ELSE Returns(out)

\* The outputs when the loop of line 1087 ends with the locals d.
CalcOutputsAfter(w, d) ==
  Then(d, LAMBDA l : CalcOutputs(w.TDryBulb, w.Pressure, w.HumRatio, w.TWetBulb,
                                 DewPointResult(l)))

Calc_DewPointIteration ==
  /\ pc = "calc_dewpoint"
  /\ CalcDewPointStep(NewtonBody(dp), CalcOutputsAfter(wb, NewtonBody(dp)))
  /\ UNCHANGED <<PSYCHROLIB_UNITS, PSYCHROLIB_TOLERANCE, fn, arg, setter, seen>>

(***************************************************************************)
(* The dew-point and wet-bulb functions of the historical variants,        *)
(* Psychrometrics_SI.cpp and Psychrometrics_IP.cpp.                        *)
(***************************************************************************)
\* Dry-bulb temperatures in and above the two regression ranges, with the upper
\* ends 93 C and 200 F; humidity ratios: a negative one, zero and a positive one.
Historical_DryBulbInputs == {GridTemp(2), FromInt(93), GridTemp(3), GridTemp(4), GridTemp(5)}
Historical_HumRatioInputs == {D(-1, -3), Zero, D(4, -3)}

Call_Historical_GetTDewPointFromVapPres ==
  \E inIP \in BOOLEAN, TDryBulb \in Historical_DryBulbInputs, VapPres \in HumVapPresInputs :
    Call(IF inIP THEN "Psychrometrics_IP.GetTDewPointFromVapPres"
                 ELSE "Psychrometrics_SI.GetTDewPointFromVapPres",
         <<TDryBulb, VapPres>>, Historical_GetTDewPointFromVapPres(TDryBulb, VapPres, inIP))

\* The variant of the call in progress.
Historical_inIP == fn = "Psychrometrics_IP.GetTWetBulbFromHumRatio"

\* GetTWetBulbFromHumRatio of a historical variant has its bracket w, or has failed:
\* it exits, goes into its loop, or returns at once when the loop condition is false.
Historical_BisectionStep(w) ==
  IF IsFail(w) THEN Exits(w.fail) /\ wb' = wb
  ELSE /\ wb' = w
       /\ IF Historical_BisectionContinues(w)
          THEN pc' = "historical_bisect" /\ UNCHANGED <<ret, msg>>
          ELSE Returns(w.TWetBulb)

Call_Historical_GetTWetBulbFromHumRatio ==
  \E inIP \in BOOLEAN, TDryBulb \in Historical_DryBulbInputs :
    \E HumRatio \in Historical_HumRatioInputs, Pressure \in PressureInputs :
      /\ pc = "idle"
      /\ fn' = (IF inIP THEN "Psychrometrics_IP.GetTWetBulbFromHumRatio"
                        ELSE "Psychrometrics_SI.GetTWetBulbFromHumRatio")
      /\ arg' = <<TDryBulb, HumRatio, Pressure>>
      /\ Historical_BisectionStep(
           Historical_WetBulbLocals(TDryBulb, HumRatio, Pressure,
             Historical_GetTDewPointFromHumRatio(TDryBulb, HumRatio, Pressure, inIP)))
      /\ setter' = AtEntry(setter)
      /\ UNCHANGED <<PSYCHROLIB_UNITS, PSYCHROLIB_TOLERANCE, dp, seen>>

\* One pass of the while loop of GetTWetBulbFromHumRatio of a historical variant.
Historical_BisectionIteration ==
  /\ pc = "historical_bisect"
  /\ Historical_BisectionStep(Historical_BisectionBody(wb, Historical_inIP))
  /\ UNCHANGED <<PSYCHROLIB_UNITS, PSYCHROLIB_TOLERANCE, fn, arg, dp, setter, seen>>

\* The caller takes the returned value; the frames of the call are gone.
CallerContinues ==
  /\ pc = "returned"
  /\ pc' = "idle" /\ fn' = "none" /\ arg' = <<>>
  /\ dp' = [none |-> TRUE] /\ wb' = [none |-> TRUE] /\ ret' = [none |-> TRUE]
  /\ setter' = [setter EXCEPT !.overlap = FALSE]
  /\ seen' \in Remember(seen)
  /\ UNCHANGED <<PSYCHROLIB_UNITS, PSYCHROLIB_TOLERANCE, msg>>

Next ==
  \/ \E Units \in UnitSystem : SetUnitSystem(Units)
  \/ GetUnitSystem
  \/ Call_GetSatVapPres
  \/ Call_Historical_GetSatVapPres
  \/ Call_GetTDewPointFromVapPres
  \/ Call_GetTDewPointFromHumRatio
  \/ Call_GetTDewPointFromRelHum
  \/ Call_GetTWetBulbFromHumRatio
  \/ NewtonIteration
  \/ BisectionIteration
  \/ Call_GetHumRatioFromVapPres
  \/ Call_GetVapPresFromHumRatio
  \/ Call_GetSpecificHumFromHumRatio
  \/ Call_GetHumRatioFromSpecificHum
  \/ Call_GetSatHumRatio
  \/ Call_GetHumRatioFromTWetBulb
  \/ Call_GetHumRatioFromRelHum
  \/ Call_GetHumRatioFromTDewPoint
  \/ Call_GetHumRatioFromEnthalpyAndTDryBulb
  \/ Call_C_GetTDewPointFromVapPres
  \/ C_NewtonIteration
  \/ Call_C_GetTWetBulbFromHumRatio
  \/ C_BisectionIteration
  \/ Call_CalcPsychrometricsFromRelHum
  \/ Calc_NewtonIteration
  \/ Calc_BisectionIteration
  \/ Calc_DewPointIteration
  \/ Call_Historical_GetTDewPointFromVapPres
  \/ Call_Historical_GetTWetBulbFromHumRatio
  \/ Historical_BisectionIteration
  \/ CallerContinues

Spec == Init /\ [][Next]_vars

\* The same caller, with the history of one earlier call kept.
InitHistory ==
  /\ PSYCHROLIB_UNITS = "UNDEFINED"
  /\ PSYCHROLIB_TOLERANCE = One
  /\ pc = "idle"
  /\ fn = "none"
  /\ arg = <<>>
  /\ dp = [none |-> TRUE]
  /\ wb = [none |-> TRUE]
  /\ ret = [none |-> TRUE]
  /\ msg = ""
  /\ setter = [pc |-> "none", overlap |-> FALSE]
  /\ seen = [none |-> TRUE]

\* The calls of psychrolib.c, whose globals the history is about; the R binding and
\* the historical variants neither read nor write them.
NextHistory ==
  \/ \E Units \in UnitSystem : SetUnitSystem(Units)
  \/ GetUnitSystem
  \/ Call_GetSatVapPres
  \/ Call_GetTDewPointFromVapPres
  \/ Call_GetTDewPointFromHumRatio
  \/ Call_GetTDewPointFromRelHum
  \/ Call_GetTWetBulbFromHumRatio
  \/ NewtonIteration
  \/ BisectionIteration
  \/ Call_GetHumRatioFromVapPres
  \/ Call_GetVapPresFromHumRatio
  \/ Call_GetSpecificHumFromHumRatio
  \/ Call_GetHumRatioFromSpecificHum
  \/ Call_GetSatHumRatio
  \/ Call_GetHumRatioFromTWetBulb
  \/ Call_GetHumRatioFromRelHum
  \/ Call_GetHumRatioFromTDewPoint
  \/ Call_GetHumRatioFromEnthalpyAndTDryBulb
  \/ Call_CalcPsychrometricsFromRelHum
  \/ Calc_NewtonIteration
  \/ Calc_BisectionIteration
  \/ Calc_DewPointIteration
  \/ CallerContinues

SpecHistory == InitHistory /\ [][NextHistory]_vars

(***************************************************************************)
(* A second thread that calls SetUnitSystem while the caller is at work.   *)
(* The three accesses of SetUnitSystem to the two globals (the write of    *)
(* line 130, the read of line 133, the write of line 134 or 136) are three *)
(* steps, and the steps of the caller come between them in any order.      *)
(***************************************************************************)
\* The caller is inside one of the two solvers.
InFlight == pc \in {"newton", "bisect"}

\* The number of SetUnitSystem calls the second thread makes.
MaxSetterCalls == 1

\* Line 130 in the second thread.
SetterWritesUnits(Units) ==
  /\ setter.pc = "ready" /\ pc # "exited" /\ setter.calls < MaxSetterCalls
  /\ PSYCHROLIB_UNITS' = Units
  /\ setter' = [pc |-> "wrote_units", overlap |-> setter.overlap \/ InFlight,
                raced |-> FALSE, calls |-> setter.calls + 1, ip |-> FALSE]
  /\ UNCHANGED <<PSYCHROLIB_TOLERANCE, pc, fn, arg, dp, wb, ret, msg, seen>>

\* The condition of line 133 in the second thread.
SetterReadsUnits ==
  /\ setter.pc = "wrote_units" /\ pc # "exited"
  /\ setter' = [setter EXCEPT !.pc = "read_units", !.ip = (PSYCHROLIB_UNITS = "IP"),
                              !.overlap = setter.overlap \/ InFlight]
  /\ UNCHANGED <<PSYCHROLIB_UNITS, PSYCHROLIB_TOLERANCE, pc, fn, arg, dp, wb, ret, msg, seen>>

\* Line 134 or line 136 in the second thread, which then returns.
SetterWritesTolerance ==
  /\ setter.pc = "read_units" /\ pc # "exited"
  /\ PSYCHROLIB_TOLERANCE' = ToleranceOf(IF setter.ip THEN "IP" ELSE "SI")
  /\ setter' = [setter EXCEPT !.pc = "ready", !.ip = FALSE,
                              !.overlap = setter.overlap \/ InFlight]
  /\ UNCHANGED <<PSYCHROLIB_UNITS, pc, fn, arg, dp, wb, ret, msg, seen>>

\* The caller's calls of the two solvers while the second thread runs.
Call_Solver ==
  \E k \in Tracked :
    IF k[1] = "GetTDewPointFromVapPres"
    THEN EnterDewPoint(k[1], k[2], DewPointEntry(k[2][1], k[2][2]), [none |-> TRUE])
    ELSE EnterDewPoint(k[1], k[2], GetTWetBulbFromHumRatioEntry(k[2][1], k[2][2], k[2][3]),
                       [TDryBulb |-> k[2][1], Pressure |-> k[2][3], HumRatio |-> k[2][2],
                        index |-> 1, BoundedHumRatio |-> Max(k[2][2], MIN_HUM_RATIO)])

InitConcurrent ==
  /\ PSYCHROLIB_UNITS = "UNDEFINED"
  /\ PSYCHROLIB_TOLERANCE = One
  /\ pc = "idle"
  /\ fn = "none"
  /\ arg = <<>>
  /\ dp = [none |-> TRUE]
  /\ wb = [none |-> TRUE]
  /\ ret = [none |-> TRUE]
  /\ msg = ""
  /\ setter = [pc |-> "ready", overlap |-> FALSE, raced |-> FALSE, calls |-> 0, ip |-> FALSE]
  /\ seen = [off |-> TRUE]

NextConcurrent ==
  \/ \E Units \in UnitSystem : SetUnitSystem(Units)
  \/ Call_Solver
  \/ NewtonIteration
  \/ BisectionIteration
  \/ CallerContinues
  \/ \E Units \in {"IP", "SI"} : SetterWritesUnits(Units)
  \/ SetterReadsUnits
  \/ SetterWritesTolerance

SpecConcurrent == InitConcurrent /\ [][NextConcurrent]_vars

(***************************************************************************)
(* The properties checked.                                                 *)
(***************************************************************************)
\* C1: every call of GetTDewPointFromVapPres that returns, in IP or in SI, and
\* every call of C_GetTDewPointFromVapPres of the R binding, returns a dew-point
\* temperature less than or equal to its TDryBulb argument.
C1_DewPointAtMostDryBulb ==
  (pc = "returned" /\ fn \in {"GetTDewPointFromVapPres", "C_GetTDewPointFromVapPres"})
    => Le(ret, arg[1])

\* A call has returned whose last guess was above the dry-bulb temperature: the
\* final min() returned the dry-bulb temperature instead.
C1_ClampedReturn ==
  /\ pc = "returned" /\ fn = "GetTDewPointFromVapPres"
  /\ Gt(dp.TDewPoint, arg[1]) /\ ret = arg[1]

\* C2: every call of GetTWetBulbFromHumRatio that returns, returns a value in the
\* closed interval [TDewPoint, TDryBulb], TDewPoint being what the dew-point
\* solver returned for TDryBulb, max(HumRatio, MIN_HUM_RATIO) and Pressure; the
\* value is the last midpoint as it is, also when the loop body never ran.
C2_WetBulbInBracket ==
  (pc = "returned" /\ fn = "GetTWetBulbFromHumRatio")
    => /\ wb.BoundedHumRatio = Max(arg[2], MIN_HUM_RATIO)
       /\ dp.VapPres = GetVapPresFromHumRatio(wb.BoundedHumRatio, arg[3])
       /\ wb.TDewPoint = DewPointResult(dp)
       /\ ret = wb.TWetBulb
       /\ Ge(ret, wb.TDewPoint) /\ Le(ret, arg[1])

\* GetTWetBulbFromHumRatio has returned without a pass of its loop.
C2_ZeroPassReturn ==
  pc = "returned" /\ fn = "GetTWetBulbFromHumRatio" /\ wb.index = 1

\* C3: GetTDewPointFromVapPres returns only when the convergence test succeeded
\* at the end of one of its first MAX_ITER_COUNT = 100 passes; the loop body is
\* entered at most 101 times, and a call that ends with 'Convergence not
\* reached' ends in the 101st pass, no earlier pass having converged.
C3_ReturnsOnlyConverged ==
  /\ pc = "newton" => dp.index <= 101
  /\ (pc = "returned" /\ fn \in {"GetTDewPointFromVapPres", "GetTDewPointFromHumRatio"})
       => /\ ~Gt(Fabs(Sub(dp.TDewPoint, dp.TDewPoint_iter)), PSYCHROLIB_TOLERANCE)
          /\ dp.index - 1 \in 1..100
  /\ (pc = "exited" /\ msg = DewPointConvMsg)
       => /\ dp.index = 101
          /\ Gt(Fabs(Sub(dp.TDewPoint, dp.TDewPoint_iter)), PSYCHROLIB_TOLERANCE)

\* A call has returned after several passes, the last of which converged.
C3_ReturnAfterSeveralPasses ==
  /\ pc = "returned" /\ fn = "GetTDewPointFromVapPres"
  /\ dp.index - 1 >= 4
  /\ Le(Fabs(Sub(dp.TDewPoint, dp.TDewPoint_iter)), PSYCHROLIB_TOLERANCE)

\* C4: in IP (bounds -148 and 392 F) and in SI (bounds -100 and 200 C), a call of
\* GetTDewPointFromVapPres whose VapPres is below the saturation pressure at the
\* lower bound or above the one at the upper bound ends with the validity-range
\* failure before any pass of the Newton loop, and a call whose VapPres lies
\* in the closed interval between the two, end points included, does not.
C4_ValidityRange ==
  (fn = "GetTDewPointFromVapPres" /\ pc # "idle" /\ PSYCHROLIB_UNITS \in {"IP", "SI"})
    => LET lower == IF PSYCHROLIB_UNITS = "IP" THEN FromInt(-148) ELSE FromInt(-100)
           upper == IF PSYCHROLIB_UNITS = "IP" THEN FromInt(392) ELSE FromInt(200)
           inIP  == PSYCHROLIB_UNITS = "IP"
       IN  IF Lt(arg[2], C_GetSatVapPres(lower, inIP)) \/ Gt(arg[2], C_GetSatVapPres(upper, inIP))
           THEN pc = "exited" /\ msg = ValidityMsg /\ dp = [none |-> TRUE]
           ELSE msg # ValidityMsg /\ dp # [none |-> TRUE] /\ dp.index >= 1

\* A call in SI with VapPres equal to the saturation pressure at the lower bound,
\* -100 C, has passed the check and returned.
C4_LowerEndPointAccepted ==
  /\ pc = "returned" /\ fn = "GetTDewPointFromVapPres" /\ PSYCHROLIB_UNITS = "SI"
  /\ arg[2] = C_GetSatVapPres(FromInt(-100), FALSE)

\* C5: at the end of every pass of the Newton loop of GetTDewPointFromVapPres the
\* guess lies within [BOUNDS[0], BOUNDS[1]] of the unit system, and a call whose
\* VapPres equals GetSatVapPres(BOUNDS[0]) returns BOUNDS[0].
C5_IteratesWithinBounds ==
  /\ (fn \in {"GetTDewPointFromVapPres", "GetTDewPointFromHumRatio", "GetTWetBulbFromHumRatio"}
        /\ dp # [none |-> TRUE] /\ dp.index > 1)
       => /\ Ge(dp.TDewPoint, BOUNDS(PSYCHROLIB_UNITS = "IP")[1])
          /\ Le(dp.TDewPoint, BOUNDS(PSYCHROLIB_UNITS = "IP")[2])
  /\ (pc = "returned" /\ fn = "GetTDewPointFromVapPres"
        /\ arg[2] = C_GetSatVapPres(BOUNDS(PSYCHROLIB_UNITS = "IP")[1], PSYCHROLIB_UNITS = "IP"))
       => ret = BOUNDS(PSYCHROLIB_UNITS = "IP")[1]

\* A call with VapPres equal to GetSatVapPres(BOUNDS[0]) and a warmer dry bulb has
\* returned after a pass whose Newton step was cut at the lower bound.
C5_LowerBoundReturned ==
  /\ pc = "returned" /\ fn = "GetTDewPointFromVapPres"
  /\ arg[2] = C_GetSatVapPres(BOUNDS(PSYCHROLIB_UNITS = "IP")[1], PSYCHROLIB_UNITS = "IP")
  /\ Gt(arg[1], BOUNDS(PSYCHROLIB_UNITS = "IP")[1])
  /\ ret = BOUNDS(PSYCHROLIB_UNITS = "IP")[1]

\* C6: every pass of the bisection loop of GetTWetBulbFromHumRatio, and of
\* C_GetTWetBulbFromHumRatio of the R binding, replaces exactly one of the two
\* bounds by the current midpoint: TWetBulbInf does not decrease, TWetBulbSup
\* does not increase, TWetBulbInf <= TWetBulbSup still holds, and the width
\* TWetBulbSup - TWetBulbInf does not increase.
C6_BracketShrinks ==
  [][(pc \in {"bisect", "C_bisect"} /\ pc' # "exited")
       => /\ \/ /\ wb'.TWetBulbSup = wb.TWetBulb /\ wb'.TWetBulbInf = wb.TWetBulbInf
                /\ wb'.TWetBulbSup # wb.TWetBulbSup
             \/ /\ wb'.TWetBulbInf = wb.TWetBulb /\ wb'.TWetBulbSup = wb.TWetBulbSup
                /\ wb'.TWetBulbInf # wb.TWetBulbInf
          /\ Ge(wb'.TWetBulbInf, wb.TWetBulbInf)
          /\ Le(wb'.TWetBulbSup, wb.TWetBulbSup)
          /\ Le(wb.TWetBulbInf, wb.TWetBulbSup)
          /\ Le(wb'.TWetBulbInf, wb'.TWetBulbSup)
          /\ Le(Sub(wb'.TWetBulbSup, wb'.TWetBulbInf), Sub(wb.TWetBulbSup, wb.TWetBulbInf))]_vars

\* In one call each bound has been moved: a pass has raised TWetBulbInf and a
\* pass has lowered TWetBulbSup.
C6_BothBoundsMoved ==
  /\ pc = "bisect"
  /\ Gt(wb.TWetBulbInf, wb.TDewPoint) /\ Lt(wb.TWetBulbSup, wb.TDryBulb)

C8_UnitErrorExactlyWhenUnset ==
  /\ [](((fn \in {"GetSatVapPres", "GetTDewPointFromVapPres"}
            \/ (fn = "GetTWetBulbFromHumRatio" /\ Ge(arg[2], Zero))) /\ pc # "idle")
          => ((pc = "exited" /\ msg = UnitsMsg) <=> PSYCHROLIB_UNITS \notin {"IP", "SI"}))
  /\ []((pc = "returned" /\ fn = "GetUnitSystem") => ret = [units |-> PSYCHROLIB_UNITS])
  /\ [][(\A Units \in UnitSystem : SetUnitSystem(Units) => PSYCHROLIB_UNITS' = Units)
        /\ (PSYCHROLIB_UNITS' # PSYCHROLIB_UNITS
              => \E Units \in UnitSystem : SetUnitSystem(Units))]_vars

\* After SetUnitSystem(UNDEFINED), which left the tolerance at 0.001, a call of
\* GetTWetBulbFromHumRatio with a positive humidity ratio has ended the process
\* with the unit-system error.
C8_ExitedAfterReset ==
  /\ PSYCHROLIB_UNITS = "UNDEFINED" /\ PSYCHROLIB_TOLERANCE = D(1, -3)
  /\ fn = "GetTWetBulbFromHumRatio" /\ Gt(arg[2], Zero)
  /\ pc = "exited" /\ msg = UnitsMsg

\* C9 as stated: a humidity ratio that is negative or zero, passed to
\* GetTWetBulbFromHumRatio or GetTDewPointFromHumRatio, makes the call fail
\* without running the solver.
C9_NonPositiveRejected ==
  (fn \in {"GetTWetBulbFromHumRatio", "GetTDewPointFromHumRatio"} /\ pc # "idle"
     /\ Le(arg[2], Zero))
    => (pc = "exited" /\ dp = [none |-> TRUE])

\* C9, amended: a negative humidity ratio passed to GetTWetBulbFromHumRatio or
\* GetTDewPointFromHumRatio is rejected at the call boundary ('Humidity ratio is
\* negative') without running the solver; zero is not rejected: it is raised to
\* MIN_HUM_RATIO, and the solver runs on the vapor pressure of that floor.
C9_OnlyNegativeRejected ==
  (fn \in {"GetTWetBulbFromHumRatio", "GetTDewPointFromHumRatio"} /\ pc # "idle")
    => /\ Lt(arg[2], Zero) => (pc = "exited" /\ msg = HumRatioMsg /\ dp = [none |-> TRUE])
       /\ arg[2] = Zero
            => /\ msg # HumRatioMsg
               /\ dp # [none |-> TRUE]
                    => dp.VapPres = GetVapPresFromHumRatio(MIN_HUM_RATIO, arg[3])
               /\ (PSYCHROLIB_UNITS = "SI" /\ arg[3] = FromInt(101325))
                    => (dp # [none |-> TRUE] /\ pc # "exited")

\* GetTDewPointFromHumRatio, called with a humidity ratio of zero, has run the
\* solver and returned a dew point.
C9_ZeroSolved ==
  /\ fn = "GetTDewPointFromHumRatio" /\ arg[2] = Zero
  /\ pc = "returned" /\ dp.index > 1

\* C10: GetHumRatioFromVapPres, GetHumRatioFromTWetBulb, GetHumRatioFromRelHum,
\* GetHumRatioFromTDewPoint, GetHumRatioFromSpecificHum,
\* GetHumRatioFromEnthalpyAndTDryBulb and GetSatHumRatio return, whenever they
\* return, a value >= MIN_HUM_RATIO = 1e-7: not zero, not negative and not the
\* INVALID sentinel, also when Pressure is below the vapor pressure.
C10_HumRatioAtLeastFloor ==
  (pc = "returned"
     /\ fn \in {"GetHumRatioFromVapPres", "GetHumRatioFromTWetBulb", "GetHumRatioFromRelHum",
                "GetHumRatioFromTDewPoint", "GetHumRatioFromSpecificHum",
                "GetHumRatioFromEnthalpyAndTDryBulb", "GetSatHumRatio"})
    => /\ Ge(ret, D(1, -7))
       /\ Gt(ret, Zero)
       /\ ret # INVALID

\* GetHumRatioFromVapPres, called with a Pressure below the vapor pressure, has
\* returned the floor in place of the negative ratio of the formula.
C10_FloorReturned ==
  /\ pc = "returned" /\ fn = "GetHumRatioFromVapPres"
  /\ Gt(arg[1], arg[2]) /\ ret = MIN_HUM_RATIO

\* C11: GetSatVapPres of psychrolib.c, called with a temperature below -148 or
\* above 392 (IP), below -100 or above 200 (SI), ends the process with the range
\* message and returns nothing, neither to the caller nor to a library function
\* that called it (GetSatHumRatio, GetHumRatioFromTDewPoint); for a temperature
\* in the closed range, end points included, it returns the saturation pressure.
C11_OutOfRangeFails ==
  (PSYCHROLIB_UNITS \in {"IP", "SI"} /\ pc # "idle"
     /\ fn \in {"GetSatVapPres", "GetSatHumRatio", "GetHumRatioFromTDewPoint"})
    => IF \/ Lt(arg[1], IF PSYCHROLIB_UNITS = "IP" THEN FromInt(-148) ELSE FromInt(-100))
          \/ Gt(arg[1], IF PSYCHROLIB_UNITS = "IP" THEN FromInt(392) ELSE FromInt(200))
       THEN /\ pc = "exited" /\ ret = [none |-> TRUE]
            /\ msg = (IF PSYCHROLIB_UNITS = "IP" THEN RangeMsgIP ELSE RangeMsgSI)
       ELSE /\ pc = "returned" /\ ret # INVALID
            /\ fn = "GetSatVapPres" => ret = C_GetSatVapPres(arg[1], PSYCHROLIB_UNITS = "IP")

\* GetSatVapPres has been called in IP with 392.01 and has ended the process.
C11_JustAboveRangeExited ==
  /\ PSYCHROLIB_UNITS = "IP" /\ fn = "GetSatVapPres" /\ arg[1] = D(39201, -2)
  /\ pc = "exited" /\ msg = RangeMsgIP

\* C12: for every temperature and each unit system, GetSatVapPres and dLnPws_
\* (and C_GetSatVapPres and C_dLnPws of the R binding) select the same regime:
\* in every pass of the Newton loop, which evaluates both at TDewPoint_iter, and
\* in every direct call of GetSatVapPres, the value is that of the ice
\* expression exactly when the temperature is <= the triple point (32.018 F in
\* IP, 0.01 C in SI) and that of the liquid expression otherwise.
C12_SameRegime ==
  /\ (dp # [none |-> TRUE] /\ dp.index > 1)
       => LET inIP == IF fn = "C_GetTDewPointFromVapPres" THEN dp.inIP
                      ELSE PSYCHROLIB_UNITS = "IP"
              ice  == Le(dp.TDewPoint_iter, IF inIP THEN D(32018, -3) ELSE D(1, -2))
              T    == IF inIP THEN Add(dp.TDewPoint_iter, D(45967, -2))
                      ELSE Add(dp.TDewPoint_iter, D(27315, -2))
          IN  /\ dp.lnVP_iter =
                   Log(Exp(LnPwsSum(T, IF inIP THEN (IF ice THEN LnPwsIceIP ELSE LnPwsWaterIP)
                                       ELSE (IF ice THEN LnPwsIceSI ELSE LnPwsWaterSI), ice)))
              /\ dp.d_lnVP =
                   dLnPwsSum(T, IF inIP THEN (IF ice THEN dLnPwsIceIP ELSE dLnPwsWaterIP)
                                ELSE (IF ice THEN dLnPwsIceSI ELSE dLnPwsWaterSI), ice)
  /\ (pc = "returned" /\ fn = "GetSatVapPres")
       => LET inIP == PSYCHROLIB_UNITS = "IP"
              ice  == Le(arg[1], IF inIP THEN D(32018, -3) ELSE D(1, -2))
              T    == IF inIP THEN Add(arg[1], D(45967, -2)) ELSE Add(arg[1], D(27315, -2))
          IN  ret = Exp(LnPwsSum(T, IF inIP THEN (IF ice THEN LnPwsIceIP ELSE LnPwsWaterIP)
                                    ELSE (IF ice THEN LnPwsIceSI ELSE LnPwsWaterSI), ice))

\* The first pass of a Newton loop in SI has evaluated the correlation and its
\* derivative at the triple point itself, 0.01 C, and another pass follows.
C12_EvaluatedAtTriplePoint ==
  /\ PSYCHROLIB_UNITS = "SI" /\ pc = "newton" /\ dp.index = 2
  /\ dp.TDewPoint_iter = D(1, -2)

\* C13: after any sequence of SetUnitSystem calls, whenever the unit system is IP
\* the tolerance is 0.001*9/5 (0.0018) and whenever it is SI the tolerance is
\* 0.001; the SI tolerance is the smaller of the two.
C13_ToleranceMatchesUnits ==
  /\ PSYCHROLIB_UNITS = "IP"
       => /\ PSYCHROLIB_TOLERANCE = Div(Mul(D(1, -3), FromInt(9)), FromInt(5))
          /\ Gt(PSYCHROLIB_TOLERANCE, D(17999, -7)) /\ Lt(PSYCHROLIB_TOLERANCE, D(18001, -7))
          /\ Gt(PSYCHROLIB_TOLERANCE, D(1, -3))
  /\ PSYCHROLIB_UNITS = "SI" => PSYCHROLIB_TOLERANCE = D(1, -3)

\* A dew-point call has returned in IP, the tolerance being 0.0018.
C13_SolvedInIP ==
  /\ PSYCHROLIB_UNITS = "IP" /\ Gt(PSYCHROLIB_TOLERANCE, D(1, -3))
  /\ pc = "returned" /\ fn = "GetTDewPointFromVapPres"

\* C14: no calculation function modifies the unit system or the tolerance: a
\* step that changes PSYCHROLIB_UNITS or PSYCHROLIB_TOLERANCE is a SetUnitSystem
\* call, and every step of a calculation call (its entry, each pass of a loop,
\* its return or its failure) leaves both as they were.
C14_OnlySetUnitSystemWrites ==
  [][/\ (PSYCHROLIB_UNITS' # PSYCHROLIB_UNITS \/ PSYCHROLIB_TOLERANCE' # PSYCHROLIB_TOLERANCE)
          => (pc = "idle" /\ pc' = "idle" /\ \E Units \in UnitSystem : SetUnitSystem(Units))
     /\ (pc' # "idle" \/ pc # "idle")
          => (PSYCHROLIB_UNITS' = PSYCHROLIB_UNITS /\ PSYCHROLIB_TOLERANCE' = PSYCHROLIB_TOLERANCE)]_vars

\* A call in SI has failed on its argument; the unit system and the tolerance are
\* those of SI still.
C14_FailedCallKeptConfiguration ==
  /\ pc = "exited" /\ msg = ValidityMsg
  /\ PSYCHROLIB_UNITS = "SI" /\ PSYCHROLIB_TOLERANCE = D(1, -3)

\* C15: the outcome of a calculation call is determined by its arguments and the
\* unit system current at the call: a call with the arguments of an earlier call
\* of the same function, under the unit system of that call, returns, and returns
\* the value the earlier call returned, whatever calls (SetUnitSystem switched
\* away and back included) were made in between.
C15_SameCallSameOutcome ==
  (seen \notin {[none |-> TRUE], [off |-> TRUE]} /\ pc \in {"returned", "exited"}
     /\ fn = seen.fn /\ arg = seen.arg /\ PSYCHROLIB_UNITS = seen.units)
    => (pc = "returned" /\ ret = seen.ret)

\* GetTDewPointFromVapPres has returned in SI the value it returned for the same
\* arguments before the unit system was switched away from SI and back.
C15_SameValueAfterToggle ==
  /\ seen \notin {[none |-> TRUE], [off |-> TRUE]} /\ seen.between
  /\ pc = "returned" /\ fn = "GetTDewPointFromVapPres" /\ fn = seen.fn /\ arg = seen.arg
  /\ PSYCHROLIB_UNITS = "SI" /\ seen.units = "SI" /\ ret = seen.ret

\* The configuration the caller's call in flight has read is one configuration:
\* the tolerance is the one of the unit system, the bounds taken at the entry are
\* those of the unit system, and the saturation pressure of the last pass was
\* computed with the correlation of the unit system.
OneConfiguration ==
  /\ UnitsDefined
  /\ PSYCHROLIB_TOLERANCE = ToleranceOf(PSYCHROLIB_UNITS)
  /\ dp.BOUNDS = BOUNDS(isIP)
  /\ dp.index > 1 => dp.lnVP_iter = Log(C_GetSatVapPres(dp.TDewPoint_iter, isIP))

\* C16 as stated: whenever no SetUnitSystem call of the second thread has
\* overlapped the GetTDewPointFromVapPres or GetTWetBulbFromHumRatio call in
\* flight, what that call has read is one unit system and its matching tolerance.
C16_NoOverlapOneConfiguration ==
  (InFlight /\ ~setter.overlap) => OneConfiguration

\* C16, amended: a call in flight that has read two configurations was overlapped
\* by a SetUnitSystem call, or follows two SetUnitSystem calls that overlapped
\* each other; with neither, what the call has read is one unit system and its
\* matching tolerance.
C16_MixedOnlyByOverlap ==
  InFlight => (OneConfiguration \/ setter.overlap \/ setter.raced)

\* A GetTDewPointFromVapPres call overlapped by SetUnitSystem has taken the bounds
\* of IP at its entry and the saturation correlation of SI in its last pass.
C16_BoundsOfOneCorrelationOfOther ==
  /\ pc = "newton" /\ fn = "GetTDewPointFromVapPres" /\ setter.overlap
  /\ dp.index > 1 /\ dp.BOUNDS = BOUNDS(TRUE)
  /\ dp.lnVP_iter = Log(C_GetSatVapPres(dp.TDewPoint_iter, FALSE))
  /\ dp.lnVP_iter # Log(C_GetSatVapPres(dp.TDewPoint_iter, TRUE))

\* C17: a GetTDewPointFromRelHum call with TDryBulb inside the domain of the
\* correlation and RelHum in [0, 1], both end points included, does not fail and
\* returns a dew point less than or equal to TDryBulb; with RelHum < 0 or
\* RelHum > 1 it fails with the relative-humidity message.
C17_WholeRangeAccepted ==
  (fn = "GetTDewPointFromRelHum" /\ pc \in {"returned", "exited"} /\ UnitsDefined
     /\ InDomain(arg[1], isIP))
    => IF Ge(arg[2], Zero) /\ Le(arg[2], One)
       THEN pc = "returned" /\ Le(ret, arg[1])
       ELSE pc = "exited" /\ msg = RelHumMsg

\* C18: for TDryBulb and TDewPoint inside the domain of the correlation with
\* TDewPoint <= TDryBulb, GetTDewPointFromVapPres(TDryBulb, GetSatVapPres(TDewPoint))
\* returns, and the value it returns differs from TDewPoint by at most the
\* tolerance of the unit system in use.
C18_DewPointRoundTrip ==
  (fn = "GetTDewPointFromVapPres" /\ pc \in {"returned", "exited"} /\ UnitsDefined)
    => \A TDewPoint \in Temps :
         (InDomain(TDewPoint, isIP) /\ InDomain(arg[1], isIP) /\ Le(TDewPoint, arg[1])
            /\ arg[2] = GetSatVapPres(TDewPoint))
           => (pc = "returned" /\ Le(Fabs(Sub(ret, TDewPoint)), PSYCHROLIB_TOLERANCE))

\* GetTDewPointFromVapPres has returned in IP, after more than one pass of its loop,
\* for the saturation pressure of a dew point below TDryBulb.
C18_RoundTripSolved ==
  /\ pc = "returned" /\ fn = "GetTDewPointFromVapPres" /\ PSYCHROLIB_UNITS = "IP"
  /\ dp.index > 2 /\ arg[1] = GridTemp(3) /\ arg[2] = GetSatVapPres(GridTemp(2))
  /\ Le(Fabs(Sub(ret, GridTemp(2))), PSYCHROLIB_TOLERANCE)

\* C19: for TWetBulb <= TDryBulb and a pressure at which the air of that state holds
\* water (the humidity ratio of the state is above the floor MIN_HUM_RATIO, so the
\* state has a dew point, which is at most TWetBulb), the call
\* GetTWetBulbFromHumRatio(TDryBulb, GetHumRatioFromTWetBulb(TDryBulb, TWetBulb,
\* Pressure), Pressure) returns, and the value it returns differs from TWetBulb by
\* at most the tolerance of the unit system in use.
C19_WetBulbRoundTrip ==
  (fn = "GetTWetBulbFromHumRatio" /\ pc \in {"returned", "exited"} /\ UnitsDefined)
    => \A TWetBulb \in WetBulbInputs :
         (Le(TWetBulb, arg[1]) /\ Gt(arg[2], MIN_HUM_RATIO)
            /\ arg[2] = GetHumRatioFromTWetBulb(arg[1], TWetBulb, arg[3]))
           => (pc = "returned" /\ Le(Fabs(Sub(ret, TWetBulb)), PSYCHROLIB_TOLERANCE))

\* C20: GetSatVapPres of the historical variants, called with a dry-bulb temperature
\* outside its validity range ([-100, 200] in Psychrometrics_SI.cpp, [-148, 392] in
\* Psychrometrics_IP.cpp), returns the sentinel -99999 to its caller.
C20_HistoricalReturnsSentinel ==
  \A inIP \in BOOLEAN :
    (fn = (IF inIP THEN "Psychrometrics_IP.GetSatVapPres" ELSE "Psychrometrics_SI.GetSatVapPres")
       /\ pc \in {"returned", "exited"} /\ ~InDomain(arg[1], inIP))
      => (pc = "returned" /\ ret = INVALID)

\* C21 as stated: a pass of the Newton loop of GetTDewPointFromVapPres (and of
\* C_GetTDewPointFromVapPres) that does not fail is the last one exactly when the
\* absolute difference between the new, clamped guess and the previous guess is
\* strictly below the tolerance; a difference equal to the tolerance does not
\* stop the loop.
C21_StopsStrictlyBelow ==
  [][(pc \in {"newton", "C_newton"} /\ pc' # "exited")
       => (pc' # pc <=> Lt(Fabs(Sub(dp'.TDewPoint, dp'.TDewPoint_iter)),
                           IF pc = "newton" THEN PSYCHROLIB_TOLERANCE ELSE dp.TOLERANCE))]_vars

\* C21, amended: a pass of the Newton loop that does not fail is the last one
\* exactly when the absolute difference between the new, clamped guess and the
\* previous guess is not above the tolerance; the loop stops at the first such
\* pass and at no earlier one, and a difference equal to the tolerance stops it.
C21_StopsNotAbove ==
  [][(pc \in {"newton", "C_newton"} /\ pc' # "exited")
       => /\ dp'.TDewPoint_iter = dp.TDewPoint
          /\ pc' # pc <=> ~Gt(Fabs(Sub(dp'.TDewPoint, dp'.TDewPoint_iter)),
                               IF pc = "newton" THEN PSYCHROLIB_TOLERANCE ELSE dp.TOLERANCE)]_vars

\* A call of C_GetTDewPointFromVapPres has returned after one pass whose step was
\* cut at the lower bound, half a degree below the first guess, with a tolerance
\* of half a degree: the difference was equal to the tolerance.
C21_StoppedAtTolerance ==
  /\ pc = "returned" /\ fn = "C_GetTDewPointFromVapPres" /\ dp.index = 2
  /\ Fabs(Sub(dp.TDewPoint, dp.TDewPoint_iter)) = dp.TOLERANCE

\* The tolerance of the bisection under way: the global of the C library, the
\* argument of the R binding.
BisectionTolerance ==
  IF fn = "C_GetTWetBulbFromHumRatio" THEN wb.TOLERANCE ELSE PSYCHROLIB_TOLERANCE

\* C22 as stated: the bisection loop of GetTWetBulbFromHumRatio (and of
\* C_GetTWetBulbFromHumRatio) is inside its loop only while the bracket width is
\* not below the tolerance, and on every return the width TWetBulbSup -
\* TWetBulbInf is strictly below the tolerance.
C22_WidthStrictlyBelow ==
  /\ pc \in {"bisect", "C_bisect"}
       => ~Lt(Sub(wb.TWetBulbSup, wb.TWetBulbInf), BisectionTolerance)
  /\ (pc = "returned" /\ fn \in {"GetTWetBulbFromHumRatio", "C_GetTWetBulbFromHumRatio"})
       => Lt(Sub(wb.TWetBulbSup, wb.TWetBulbInf), BisectionTolerance)

\* C22, amended: the bisection loop continues while the bracket width is above
\* the tolerance and stops as soon as the width is not above it, so on every
\* return the final bracket width is not above the tolerance.
C22_WidthNotAbove ==
  /\ pc \in {"bisect", "C_bisect"}
       => Gt(Sub(wb.TWetBulbSup, wb.TWetBulbInf), BisectionTolerance)
  /\ (pc = "returned" /\ fn \in {"GetTWetBulbFromHumRatio", "C_GetTWetBulbFromHumRatio"})
       => ~Gt(Sub(wb.TWetBulbSup, wb.TWetBulbInf), BisectionTolerance)

\* A call of C_GetTWetBulbFromHumRatio has returned after passes of its loop with
\* a bracket whose width is equal to the tolerance.
C22_ReturnedAtTolerance ==
  /\ pc = "returned" /\ fn = "C_GetTWetBulbFromHumRatio" /\ wb.index > 1
  /\ Sub(wb.TWetBulbSup, wb.TWetBulbInf) = wb.TOLERANCE

\* C23: GetTWetBulbFromHumRatio starts with the bracket [TDewPoint, TDryBulb] and
\* its midpoint as guess; each pass evaluates GetHumRatioFromTWetBulb at the
\* guess and, if the value exceeds the floor-bounded target humidity ratio, sets
\* the upper bound to the guess, otherwise (equality included) the lower bound;
\* the next guess is the midpoint of the updated bracket.
C23_BisectionRule ==
  [][/\ (pc = "newton" /\ fn = "GetTWetBulbFromHumRatio" /\ pc' \in {"bisect", "returned"})
          => /\ wb'.TWetBulbInf = Min(dp'.TDewPoint, arg[1])
             /\ wb'.TWetBulbSup = arg[1]
             /\ wb'.TWetBulb = Div(Add(wb'.TWetBulbInf, wb'.TWetBulbSup), Two)
     /\ (pc = "bisect" /\ pc' # "exited")
          => /\ wb'.Wstar = GetHumRatioFromTWetBulb(arg[1], wb.TWetBulb, arg[3])
             /\ IF Gt(wb'.Wstar, Max(arg[2], MIN_HUM_RATIO))
                THEN wb'.TWetBulbSup = wb.TWetBulb /\ wb'.TWetBulbInf = wb.TWetBulbInf
                ELSE wb'.TWetBulbInf = wb.TWetBulb /\ wb'.TWetBulbSup = wb.TWetBulbSup
             /\ wb'.TWetBulb = Div(Add(wb'.TWetBulbInf, wb'.TWetBulbSup), Two)]_vars

\* The first pass of a call found the humidity ratio at the guess equal to the
\* target, both at the floor MIN_HUM_RATIO, and moved the lower bound to the guess.
C23_EqualityMovedLower ==
  /\ pc = "bisect" /\ fn = "GetTWetBulbFromHumRatio" /\ wb.index = 2
  /\ wb.Wstar = wb.BoundedHumRatio
  /\ wb.TWetBulbInf = Div(Add(wb.TDewPoint, arg[1]), Two) /\ wb.TWetBulbSup = arg[1]

\* The call under way is a GetTWetBulbFromHumRatio call whose humidity ratio is the
\* one GetHumRatioFromTWetBulb gives at T0, above the floor, with T0 inside the
\* initial bracket and the bracket on one side of the freezing point of water,
\* where the forward function is non-decreasing.
CrossesAt(T0) ==
  /\ Le(T0, arg[1]) /\ Ge(T0, wb.TDewPoint)
  /\ arg[2] = GetHumRatioFromTWetBulb(arg[1], T0, arg[3])
  /\ Gt(arg[2], MIN_HUM_RATIO)
  /\ LET freezing == IF isIP THEN FREEZING_POINT_WATER_IP ELSE FREEZING_POINT_WATER_SI
     IN  Ge(wb.TDewPoint, freezing) \/ Lt(arg[1], freezing)

\* C24: in the bisection of GetTWetBulbFromHumRatio a lower bound assigned inside
\* the loop is a guess whose forward humidity ratio was at most the target, and
\* an upper bound assigned inside the loop is a guess whose forward humidity
\* ratio was above it; where the forward function is non-decreasing and crosses
\* the target at T0 inside the initial bracket, T0 stays inside the bracket at
\* every pass and the value returned is within the tolerance of T0.
C24_CrossingBracketed ==
  (pc \in {"bisect", "returned"} /\ fn = "GetTWetBulbFromHumRatio")
    => /\ Gt(wb.TWetBulbInf, wb.TDewPoint)
            => Le(GetHumRatioFromTWetBulb(arg[1], wb.TWetBulbInf, arg[3]), wb.BoundedHumRatio)
       /\ Lt(wb.TWetBulbSup, arg[1])
            => Gt(GetHumRatioFromTWetBulb(arg[1], wb.TWetBulbSup, arg[3]), wb.BoundedHumRatio)
       /\ \A T0 \in WetBulbInputs :
            CrossesAt(T0)
              => /\ Le(wb.TWetBulbInf, T0) /\ Le(T0, wb.TWetBulbSup)
                 /\ pc = "returned" => Le(Fabs(Sub(ret, T0)), PSYCHROLIB_TOLERANCE)

\* A call whose humidity ratio is the one of the wet-bulb temperature 15 has
\* returned after passes that moved both bounds, still around 15.
C24_CrossingKept ==
  /\ pc = "returned" /\ fn = "GetTWetBulbFromHumRatio" /\ CrossesAt(FromInt(15))
  /\ Gt(wb.TWetBulbInf, wb.TDewPoint) /\ Lt(wb.TWetBulbSup, arg[1])

\* C25: in every call of GetTWetBulbFromHumRatio that reaches the bisection loop,
\* the initial bracket is at most 540 F (IP) or 300 C (SI) wide and each pass
\* halves it (to the rounding of the subtraction, below a hundredth of the
\* tolerance), so the loop is left after at most 19 passes and the call never
\* ends with 'Convergence not reached in GetTWetBulbFromHumRatio'.
C25_AtMostNineteenPasses ==
  /\ [](msg # WetBulbConvMsg)
  /\ []((fn = "GetTWetBulbFromHumRatio" /\ pc \in {"bisect", "returned"})
          => /\ Le(Sub(arg[1], wb.TDewPoint), IF isIP THEN FromInt(540) ELSE FromInt(300))
             /\ wb.index - 1 <= (IF pc = "bisect" THEN 18 ELSE 19))
  /\ [][(pc = "bisect" /\ pc' # "exited")
          => Le(Fabs(Sub(Mul(Two, Sub(wb'.TWetBulbSup, wb'.TWetBulbInf)),
                         Sub(wb.TWetBulbSup, wb.TWetBulbInf))), D(1, -5))]_vars

\* A call in SI with the dry bulb at the upper bound, 200 C, has returned after
\* 19 passes of the bisection loop.
C25_NineteenPasses ==
  /\ pc = "returned" /\ fn = "GetTWetBulbFromHumRatio" /\ PSYCHROLIB_UNITS = "SI"
  /\ arg[1] = FromInt(200) /\ wb.index - 1 = 19

\* C26: in the bisection loop of GetTWetBulbFromHumRatio every guess handed to
\* GetHumRatioFromTWetBulb lies between the dew point and the dry bulb (and so
\* inside the range of GetSatVapPres), and no pass of the loop ends with 'Wet
\* bulb temperature is above dry bulb temperature' or with the range message of
\* GetSatVapPres.
C26_GuessInsideBracket ==
  /\ []((pc = "bisect" /\ fn = "GetTWetBulbFromHumRatio")
          => /\ Le(wb.TDewPoint, wb.TWetBulb) /\ Le(wb.TWetBulb, arg[1])
             /\ InDomain(wb.TWetBulb, isIP))
  /\ [][pc = "bisect" => msg' \notin {WetBulbMsg, RangeMsgIP, RangeMsgSI}]_vars

\* The loop is at its fifth pass or later with the upper bound still the dry
\* bulb: the guesses have come up to the dry bulb from below.
C26_GuessNearDryBulb ==
  /\ pc = "bisect" /\ fn = "GetTWetBulbFromHumRatio" /\ wb.index >= 5
  /\ wb.TWetBulbSup = arg[1] /\ Lt(wb.TWetBulb, arg[1])

\* C27: a GetTDewPointFromVapPres call with TDryBulb outside the domain of the
\* correlation and a VapPres that passed the validity-range check ends in its
\* first pass with the range message of GetSatVapPres and returns no value; from
\* the second pass on the guess handed to GetSatVapPres is inside the domain and
\* no pass ends with that message.
C27_RangeFailureOnlyInFirstPass ==
  /\ [][(pc = "newton" /\ fn = "GetTDewPointFromVapPres" /\ ~InDomain(arg[1], isIP))
          => /\ dp.index = 1 /\ pc' = "exited" /\ ret' = [none |-> TRUE]
             /\ msg' = (IF isIP THEN RangeMsgIP ELSE RangeMsgSI)]_vars
  /\ []((pc = "newton" /\ fn = "GetTDewPointFromVapPres" /\ dp.index > 1)
          => InDomain(dp.TDewPoint, isIP))
  /\ [][(pc = "newton" /\ fn = "GetTDewPointFromVapPres" /\ dp.index > 1)
          => msg' \notin {RangeMsgIP, RangeMsgSI}]_vars

\* A call in SI with a dry bulb above 200 C and the saturation pressure of a
\* temperature of the domain has exited in its first pass with the range message.
C27_FirstPassOutOfRange ==
  /\ pc = "exited" /\ fn = "GetTDewPointFromVapPres" /\ PSYCHROLIB_UNITS = "SI"
  /\ Gt(arg[1], BOUNDS(FALSE)[2]) /\ arg[2] = GetSatVapPres(GridTemp(2))
  /\ dp.index = 1 /\ msg = RangeMsgSI

\* C28: whenever CalcPsychrometricsFromRelHum returns, its outputs satisfy
\* *TDewPoint <= *TWetBulb <= TDryBulb and *HumRatio >= MIN_HUM_RATIO, and the
\* bracket of the wet-bulb bisection was built from the dew point returned as
\* *TDewPoint, both solved for the same floor-bounded *HumRatio.
C28_OutputsOrdered ==
  (pc = "returned" /\ fn = "CalcPsychrometricsFromRelHum")
    => /\ Le(ret.TDewPoint, ret.TWetBulb) /\ Le(ret.TWetBulb, arg[1])
       /\ Ge(ret.HumRatio, MIN_HUM_RATIO)
       /\ wb.TDewPoint = ret.TDewPoint /\ wb.BoundedHumRatio = ret.HumRatio

\* The function has returned for a relative humidity of 0.5 after passes of the
\* bisection loop, with the wet bulb strictly between dew point and dry bulb.
C28_HalfSaturated ==
  /\ pc = "returned" /\ fn = "CalcPsychrometricsFromRelHum" /\ arg[2] = D(5, -1)
  /\ wb.index > 2
  /\ Lt(ret.TDewPoint, ret.TWetBulb) /\ Lt(ret.TWetBulb, arg[1])

\* The locals of C_GetTDewPointFromVapPres that correspond to the locals d of
\* GetTDewPointFromVapPres: the same values, with the bounds, the cap and the
\* tolerance of the library passed as arguments.
C29_SameLocals(d) ==
  [MAX_ITER_COUNT |-> MAX_ITER_COUNT, TDryBulb |-> d.TDryBulb, inIP |-> isIP,
   BOUNDS |-> d.BOUNDS, VapPres |-> d.VapPres, TDewPoint |-> d.TDewPoint, lnVP |-> d.lnVP,
   TDewPoint_iter |-> d.TDewPoint_iter, lnVP_iter |-> d.lnVP_iter, d_lnVP |-> d.d_lnVP,
   index |-> d.index, TOLERANCE |-> PSYCHROLIB_TOLERANCE]

\* The pass GetTDewPointFromVapPres has just made ends as the pass r of
\* C_GetTDewPointFromVapPres: both fail to converge, or both have the same new
\* guess, previous guess and count, and both go on or both return the same value.
C29_SamePass(r) ==
  IF IsFail(r) THEN pc' = "exited" /\ msg' = DewPointConvMsg
  ELSE /\ pc' # "exited"
       /\ dp'.TDewPoint = r.TDewPoint /\ dp'.TDewPoint_iter = r.TDewPoint_iter
       /\ dp'.index = r.index
       /\ (pc' = "returned") = ~NewtonContinues(r, r.TOLERANCE)
       /\ pc' = "returned" => ret' = C_DewPointResult(r)

\* C29 as stated: for every GetTDewPointFromVapPres call that has passed the
\* checks before its loop, each pass of the loop ends as the pass of
\* C_GetTDewPointFromVapPres on the same locals (bounds, cap of 100 and tolerance
\* those of the library for the unit system): the same iterates, and the same
\* result or the same convergence failure.
C29_SameIterates ==
  [][(pc = "newton" /\ fn = "GetTDewPointFromVapPres")
       => C29_SamePass(C_NewtonBody(C29_SameLocals(dp)))]_vars

\* The dry bulb a of a call of the variant (inIP: Psychrometrics_IP.cpp) is above
\* the range of the dew-point regressions: above 200 F, above 93 C.
C30_AboveRegressionRange(a, inIP) == Gt(a, IF inIP THEN FromInt(200) ELSE FromInt(93))

\* C30: in the historical variants, GetTDewPointFromVapPres called with
\* VapPres >= 0 and a dry bulb above the regression range (93 C in
\* Psychrometrics_SI.cpp, 200 F in Psychrometrics_IP.cpp) returns the sentinel
\* -99999 as a value, and GetTWetBulbFromHumRatio, called with such a dry bulb (and
\* a humidity ratio and a pressure that give a VapPres >= 0), goes into its loop
\* with the sentinel as its dew point and as the lower bound of its bracket.
C30_SentinelReturnedAndBracketed ==
  /\ [](\A inIP \in BOOLEAN :
          (fn = (IF inIP THEN "Psychrometrics_IP.GetTDewPointFromVapPres"
                        ELSE "Psychrometrics_SI.GetTDewPointFromVapPres")
             /\ pc \in {"returned", "exited"} /\ Ge(arg[2], Zero)
             /\ C30_AboveRegressionRange(arg[1], inIP))
            => (pc = "returned" /\ ret = INVALID))
  /\ [][\A inIP \in BOOLEAN :
          (pc = "idle"
             /\ fn' = (IF inIP THEN "Psychrometrics_IP.GetTWetBulbFromHumRatio"
                               ELSE "Psychrometrics_SI.GetTWetBulbFromHumRatio")
             /\ Ge(arg'[2], Zero) /\ C30_AboveRegressionRange(arg'[1], inIP))
            => (/\ pc' = "historical_bisect"
                /\ wb'.TDewPoint = INVALID /\ wb'.TWetBulbInf = INVALID
                /\ wb'.TWetBulbSup = arg'[1]
                /\ wb'.TWetBulb = Midpoint(INVALID, arg'[1]))]_vars

\* GetTWetBulbFromHumRatio of Psychrometrics_SI.cpp, called with a dry bulb of
\* 110 C, is at its loop with the bracket [-99999, 110].
C30_SentinelInBracket ==
  /\ pc = "historical_bisect" /\ fn = "Psychrometrics_SI.GetTWetBulbFromHumRatio"
  /\ arg[1] = GridTemp(3) /\ wb.TWetBulbInf = INVALID /\ wb.TWetBulbSup = GridTemp(3)
====
